---- MODULE Spec2Model ----
(***************************************************************************)
(* Firehose ingestion pipeline of watzon/lining: the commit demultiplexer  *)
(* and filter/handler dispatcher (firehose/enhanced.go), the binary record *)
(* extractor (firehose/types.go) and the reconnecting subscription         *)
(* (firehose/firehose.go); besides them the session of the client          *)
(* (client/client.go), the rich-text post builder (post/builder.go) and the *)
(* conversion of a decoded post record into a Post (package post).         *)
(*                                                                         *)
(* Strings that the code takes apart (paths, URIs) are sequences of        *)
(* tokens; strings that are only copied or compared with "" are atoms.     *)
(* An error value is the sequence of its wrapped messages, Nil is <<>>.    *)
(***************************************************************************)
EXTENDS Integers, Sequences, FiniteSets, TLC

VARIABLES
    callbacks,  \* the EnhancedFirehoseCallbacks handed to Subscribe
    evt,        \* the notification the callback chain is working on
    pc,         \* position of the callback chain: [phase, op, h]
    post,       \* OnCommit's local `post` for the current operation
    trace,      \* history: filter/handler/extractor invocations of this callback
    ret,        \* value the callback returned to the read loop
    wsConn,     \* Firehose.wsConn: the stored connection, 0 for nil
    conns,      \* every connection dialed so far, by number
    procs,      \* the Subscribe calls and the goroutines that continue them
    closeRet,   \* history: what the call of Firehose.Close just made returned
    decode,     \* a call of RepoOperation.DecodeRecord: inputs, position, result
    client,     \* BskyClient: client.Auth and the call of the client in progress
    builder,    \* post.Builder: segments, err, options and what Build returned
    conversion  \* a call of post.PostFromFeedPost: the record, position, result

vars == <<callbacks, evt, pc, post, trace, ret, wsConn, conns, procs, closeRet,
          decode, client, builder, conversion>>
dvars == <<callbacks, evt, pc, post, trace, ret>>
svars == <<wsConn, conns, procs, closeRet>>
xvars == <<decode, client, builder, conversion>>

\* ------------------------------------------------------------------ bounds

MaxOps == 2        \* operations per commit
MaxSubscribes == 1 \* Subscribe calls by the caller
MaxConns == 3      \* connections dialed per behaviour
MaxFrames == 2     \* frames read per session
MaxShared == 2     \* Subscribe calls by the callers that share one Firehose
MaxBlocks == 3     \* blocks of an archive handed to DecodeRecord
MaxSegments == 3   \* segments a Builder is given
MaxFacets == 2     \* facets of a post record handed to PostFromFeedPost

\* --------------------------------------------------------------- strings

Nil == <<>>

POST == "app.bsky.feed.post"
FOLLOW == "app.bsky.graph.follow"
LIKE == "app.bsky.feed.like"
REPOST == "app.bsky.feed.repost"

\* strings.HasPrefix
HasPrefix(s, prefix) ==
    /\ Len(s) >= Len(prefix)
    /\ SubSeq(s, 1, Len(prefix)) = prefix

\* strings.LastIndex(s, "/"), 1-based; 0 when s holds no "/"
LastIndex(s, c) ==
    LET hits == {k \in 1..Len(s) : s[k] = c}
    IN  IF hits = {} THEN 0 ELSE CHOOSE k \in hits : \A j \in hits : j <= k

\* op.Path[strings.LastIndex(op.Path, "/")+1:]
RkeyWholePath(path) == path

\* the record key: the text after the last "/" of the path
RkeyOf(path) == SubSeq(path, LastIndex(path, "/") + 1, Len(path))

\* ------------------------------------------------------- binary extractor

PlainPost == [Text |-> "hello", ReplyRoot |-> <<>>, EmbedOk |-> TRUE]
ReplyPost == [Text |-> "re", EmbedOk |-> TRUE,
              ReplyRoot |-> <<"at://", "did:plc:x", "/", POST, "/", "1">>]

Block(c, rec) == [cid |-> c, readable |-> TRUE, cbor |-> TRUE, rec |-> rec]

\* evt.Blocks of a wire commit: absent, unparsable, or a block archive
ArchiveNil == [bytes |-> "nil", header |-> FALSE, blocks |-> <<>>]
ArchiveCorrupt == [bytes |-> "data", header |-> FALSE, blocks |-> <<>>]
ArchiveGood ==
    [bytes |-> "data", header |-> TRUE,
     blocks |-> <<[cid |-> "c9", readable |-> TRUE, cbor |-> FALSE, rec |-> PlainPost],
                  Block("c1", PlainPost),
                  Block("c2", ReplyPost),
                  Block("c4", [PlainPost EXCEPT !.EmbedOk = FALSE])>>]

\* op.Blocks is a slice shared by the operations of a commit: it is named here
\* and ArchiveData gives the bytes it refers to
Archives == {"nil", "corrupt", "good"}
ArchiveData(b) ==
    CASE b = "nil" -> ArchiveNil
      [] b = "corrupt" -> ArchiveCorrupt
      [] b = "good" -> ArchiveGood

Fail(msgs) == [err |-> msgs, rec |-> [Text |-> "", ReplyRoot |-> <<>>, EmbedOk |-> TRUE]]
Decoded(rec) == [err |-> Nil, rec |-> rec]

\* cid.Parse succeeds
CidParses(c) == c \in {"c1", "c2", "c3", "c4", "c9"}

\* the for loop over cr.Next(): blocks in archive order from position k
RECURSIVE ScanBlocks(_, _, _)
ScanBlocks(blocks, recordCid, k) ==
    IF k > Len(blocks) THEN Fail(<<"block not found in CAR data">>)
    ELSE IF ~blocks[k].readable THEN Fail(<<"error reading block">>)
    ELSE IF blocks[k].cid = recordCid
         THEN IF blocks[k].cbor THEN Decoded(blocks[k].rec)
              ELSE Fail(<<"cbor: malformed record">>)
    ELSE ScanBlocks(blocks, recordCid, k + 1)

\* RepoOperation.DecodeRecord
DecodeRecord(op) ==
    IF ArchiveData(op.Blocks).bytes = "nil"
    THEN Fail(<<"no blocks data available to decode">>)
    ELSE IF op.Cid = "" THEN Fail(<<"no CID available for record">>)
    ELSE IF ~CidParses(op.Cid) THEN Fail(<<"invalid CID">>)
    ELSE IF ~ArchiveData(op.Blocks).header THEN Fail(<<"failed to create CAR reader">>)
    ELSE ScanBlocks(ArchiveData(op.Blocks).blocks, op.Cid, 1)

\* ------------------------------------------------------------ conversion

NoPost == [valid |-> FALSE, Repo |-> "", Rkey |-> <<>>, Text |-> "", ReplyUri |-> <<>>]

\* post.PostFromFeedPost: the embed conversion can fail; the reply root URI is
\* copied when the record has a reply reference
PostFromFeedPost(p, repo, rkey) ==
    IF ~p.EmbedOk THEN [err |-> <<"image blob is nil">>, post |-> NoPost]
    ELSE [err |-> Nil,
          post |-> [valid |-> TRUE, Repo |-> repo, Rkey |-> rkey,
                    Text |-> p.Text, ReplyUri |-> p.ReplyRoot]]

\* Post.Uri
Uri(p) == <<"at://", p.Repo, "/", POST, "/">> \o p.Rkey

\* PostFromCommitEvent: reads the first operation of the commit.
\* decoded: the operation DecodeRecord was invoked on, if it was.
PostFromCommitEvent(e) ==
    IF Len(e.Ops) = 0
    THEN [err |-> <<"no operations in commit event">>, post |-> NoPost, decoded |-> <<>>]
    ELSE LET op == e.Ops[1] IN
         IF op.Cid = ""
         THEN [err |-> <<"no CID available for record">>, post |-> NoPost, decoded |-> <<>>]
         ELSE IF ArchiveData(op.Blocks).bytes = "nil"
         THEN [err |-> <<"no blocks data available">>, post |-> NoPost, decoded |-> <<>>]
         ELSE LET d == DecodeRecord(op) IN
              IF d.err # Nil
              THEN [err |-> <<"failed to decode post">> \o d.err, post |-> NoPost,
                    decoded |-> <<op>>]
              ELSE LET c == PostFromFeedPost(d.rec, e.Repo, RkeyOf(op.Path)) IN
                   IF c.err # Nil
                   THEN [err |-> <<"failed to convert post">> \o c.err, post |-> NoPost,
                         decoded |-> <<op>>]
                   ELSE [err |-> Nil, post |-> c.post, decoded |-> <<op>>]

\* ---------------------------------------------------------------- inputs

NoCid == [nil |-> TRUE, s |-> ""]
Cid(c) == [nil |-> FALSE, s |-> c]
WireOp(a, p, c) == [Action |-> a, Path |-> p, Cid |-> c]

\* operations as the relay sends them (op.Cid is a pointer, nil on deletes)
WireOps ==
    { WireOp("create", <<POST, "/", "a">>, Cid("c1")),
      WireOp("create", <<POST, "/", "b">>, Cid("c2")),
      WireOp("create", <<POST, "/", "c">>, Cid("c3")),
      WireOp("update", <<POST, "/", "a">>, Cid("c1")),
      WireOp("delete", <<POST, "/", "a">>, NoCid),
      WireOp("create", <<FOLLOW, "/", "a">>, Cid("c1")),
      WireOp("update", <<FOLLOW, "/", "a">>, Cid("c1")),
      WireOp("delete", <<FOLLOW, "/", "a">>, NoCid),
      WireOp("create", <<LIKE, "/", "a">>, Cid("c1")),
      WireOp("delete", <<LIKE, "/", "a">>, NoCid),
      WireOp("create", <<REPOST, "/", "a">>, Cid("c1")),
      WireOp("create", <<POST, "gate", "/", "x">>, Cid("c1")),
      WireOp("create", <<"app.bsky.actor.profile", "/", "self">>, Cid("c1")) }

SeqsUpTo(S, n) == UNION {[1..k -> S] : k \in 0..n}

WireCommits ==
    [Repo : {"did:plc:abc"}, Time : {"t"}, Ops : SeqsUpTo(WireOps, MaxOps),
     Blocks : Archives]

\* a (filters, handler) pair; filters and handlers are named, their verdicts and
\* results are chosen when they are invoked
Entry(fs, h) == [Filters |-> fs, Handler |-> h]

NoCallbacks ==
    [Handlers |-> <<>>, PostHandlers |-> <<>>, CommentHandlers |-> <<>>,
     FollowHandlers |-> <<>>, LikeHandlers |-> <<>>, RepostHandlers |-> <<>>,
     HandleHandlers |-> <<>>, InfoHandlers |-> <<>>, MigrateHandlers |-> <<>>,
     TombstoneHandlers |-> <<>>]

AllCallbacks ==
    [Handlers |-> <<"raw1">>,
     PostHandlers |-> <<Entry(<<"pf1", "pf2">>, "p1"), Entry(<<>>, "p2")>>,
     CommentHandlers |-> <<Entry(<<"cf1">>, "c1")>>,
     FollowHandlers |-> <<Entry(<<"ff1">>, "fo1")>>,
     LikeHandlers |-> <<Entry(<<>>, "l1")>>,
     RepostHandlers |-> <<Entry(<<>>, "r1")>>,
     HandleHandlers |-> <<Entry(<<"hf1", "hf2">>, "h1"), Entry(<<>>, "h2")>>,
     InfoHandlers |-> <<Entry(<<>>, "i1")>>,
     MigrateHandlers |-> <<Entry(<<>>, "m1")>>,
     TombstoneHandlers |-> <<Entry(<<>>, "t1")>>]

\* the callback sets a caller may register
CallbackSets ==
    { NoCallbacks,
      AllCallbacks,
      [AllCallbacks EXCEPT !.PostHandlers = <<>>],
      [NoCallbacks EXCEPT !.PostHandlers = <<Entry(<<>>, "p1")>>],
      [NoCallbacks EXCEPT !.Handlers = <<"raw1", "raw2">>,
                          !.CommentHandlers = <<Entry(<<>>, "c1")>>] }

\* ------------------------------------------------- demultiplexer, dispatcher

\* no call of DecodeRecord or of PostFromFeedPost on its own, no client, no
\* builder: the values of decode, conversion, client and builder in the
\* behaviours of the firehose
NoDecode == [pc |-> "none"]
NoClient == [pc |-> "none"]
NoBuilder == [pc |-> "none"]
NoConversion == [pc |-> "none"]

\* closeRet when the last step was not a call of Firehose.Close. After a call:
\* ret, what it returned; after, what the call made right before it returned
\* ("none" when the step before was not a call of Close)
NoClose == [ret |-> "none", after |-> "none"]

Idle == [phase |-> "idle", op |-> 0, h |-> 0]
Returned == [phase |-> "returned", op |-> 0, h |-> 0]
Terminated == [phase |-> "terminated", op |-> 0, h |-> 0]
NoEvent == [kind |-> "none"]

\* RepoCommit callback of Firehose.Subscribe: the wire commit as a CommitEvent;
\* a nil cid becomes "", every operation carries the commit's blocks
CommitEventOf(w) ==
    [kind |-> "commit", Repo |-> w.Repo, Time |-> w.Time,
     Ops |-> [k \in 1..Len(w.Ops) |->
                [Action |-> w.Ops[k].Action, Path |-> w.Ops[k].Path,
                 Cid |-> IF w.Ops[k].Cid.nil THEN "" ELSE w.Ops[k].Cid.s,
                 Blocks |-> w.Blocks]]]

\* the handler list of a category
Entries(cbs, cat) ==
    CASE cat = "post" -> cbs.PostHandlers
      [] cat = "comment" -> cbs.CommentHandlers
      [] cat = "follow" -> cbs.FollowHandlers
      [] cat = "like" -> cbs.LikeHandlers
      [] cat = "repost" -> cbs.RepostHandlers
      [] cat = "handle" -> cbs.HandleHandlers
      [] cat = "info" -> cbs.InfoHandlers
      [] cat = "migrate" -> cbs.MigrateHandlers
      [] cat = "tombstone" -> cbs.TombstoneHandlers

PhaseOrderCommentFirst ==
    <<"raw", "convert", "comment", "post", "follow", "like", "repost">>

PhaseOrderRawLast ==
    <<"convert", "post", "comment", "follow", "like", "repost", "raw">>

\* the order of OnCommit's blocks for one operation
PhaseOrder == <<"raw", "convert", "post", "comment", "follow", "like", "repost">>
PhaseIndex(ph) == CHOOSE k \in 1..Len(PhaseOrder) : PhaseOrder[k] = ph

PostGuardAnyHandlers(cbs, op) ==
    /\ HasPrefix(op.Path, <<POST>>)
    /\ op.Action = "create"
    /\ op.Cid # ""

\* the conditions that guard the conversion of a post
PostGuard(cbs, op) ==
    /\ Len(cbs.PostHandlers) > 0
    /\ HasPrefix(op.Path, <<POST>>)
    /\ op.Action = "create"
    /\ op.Cid # ""

GuardLikeAnyAction(ph, cbs, op, p) ==
    CASE ph = "raw" -> Len(cbs.Handlers) > 0
      [] ph = "convert" -> PostGuard(cbs, op)
      [] ph = "post" -> p.valid /\ Len(cbs.PostHandlers) > 0
      [] ph = "comment" -> p.valid /\ Len(cbs.CommentHandlers) > 0 /\ p.ReplyUri # <<>>
      [] ph = "follow" -> Len(cbs.FollowHandlers) > 0 /\ HasPrefix(op.Path, <<FOLLOW>>)
      [] ph = "like" -> Len(cbs.LikeHandlers) > 0 /\ HasPrefix(op.Path, <<LIKE>>)
      [] ph = "repost" -> /\ Len(cbs.RepostHandlers) > 0
                          /\ HasPrefix(op.Path, <<REPOST>>)
                          /\ op.Action = "create"

\* the conditions under which OnCommit enters each of its blocks for operation op;
\* p is the local `post`, valid once the conversion has succeeded
Guard(ph, cbs, op, p) ==
    CASE ph = "raw" -> Len(cbs.Handlers) > 0
      [] ph = "convert" -> PostGuard(cbs, op)
      [] ph = "post" -> p.valid /\ Len(cbs.PostHandlers) > 0
      [] ph = "comment" -> p.valid /\ Len(cbs.CommentHandlers) > 0 /\ p.ReplyUri # <<>>
      [] ph = "follow" -> Len(cbs.FollowHandlers) > 0 /\ HasPrefix(op.Path, <<FOLLOW>>)
      [] ph = "like" -> /\ Len(cbs.LikeHandlers) > 0
                        /\ HasPrefix(op.Path, <<LIKE>>)
                        /\ op.Action = "create"
      [] ph = "repost" -> /\ Len(cbs.RepostHandlers) > 0
                          /\ HasPrefix(op.Path, <<REPOST>>)
                          /\ op.Action = "create"

\* the next block OnCommit enters, from block k of operation i on; Returned when
\* the range over evt.Ops is exhausted (return nil)
RECURSIVE Seek(_, _, _, _, _)
Seek(cbs, e, p, i, k) ==
    IF i > Len(e.Ops) THEN Returned
    ELSE IF k > Len(PhaseOrder) THEN Seek(cbs, e, NoPost, i + 1, 1)
    ELSE IF Guard(PhaseOrder[k], cbs, e.Ops[i], p)
         THEN [phase |-> PhaseOrder[k], op |-> i, h |-> 1]
    ELSE Seek(cbs, e, p, i, k + 1)

\* the event a passthrough callback hands on: evt.wire is history, the frame
\* the event was built from
Forwarded(e) == [f \in DOMAIN e \ {"wire"} |-> e[f]]

EventOfUriFromPost(cat, e, i, p) ==
    CASE cat = "post" -> p
      [] cat = "comment" ->
            [Actor |-> e.Repo, Subject |-> e.Ops[i].Path, Uri |-> Uri(p),
             ReplyTo |-> p.ReplyUri, Text |-> p.Text]
      [] cat = "follow" -> [Actor |-> e.Repo, Subject |-> e.Ops[i].Path]
      [] cat \in {"like", "repost"} ->
            [Actor |-> e.Repo, Subject |-> e.Ops[i].Path, Uri |-> Uri(p)]
      [] OTHER -> Forwarded(e)

\* the domain event a category's handlers receive
EventOf(cat, e, i, p) ==
    CASE cat = "post" -> p
      [] cat = "comment" ->
            [Actor |-> e.Repo, Subject |-> e.Ops[i].Path, Uri |-> Uri(p),
             ReplyTo |-> p.ReplyUri, Text |-> p.Text]
      [] cat = "follow" -> [Actor |-> e.Repo, Subject |-> e.Ops[i].Path]
      [] cat \in {"like", "repost"} ->
            [Actor |-> e.Repo, Subject |-> e.Ops[i].Path, Uri |-> e.Ops[i].Path]
      [] OTHER -> Forwarded(e)

RECURSIVE FilterLoopNoBreak(_, _, _)
FilterLoopNoBreak(verdict, n, k) ==
    IF k > n THEN [evals |-> <<>>, shouldProcess |-> TRUE]
    ELSE LET rest == FilterLoopNoBreak(verdict, n, k + 1)
         IN  [evals |-> <<k>> \o rest.evals,
              shouldProcess |-> verdict[k] /\ rest.shouldProcess]

\* the filter loop of one handler entry: filters in list order, break on the
\* first false. evals: the filters that were evaluated.
RECURSIVE FilterLoop(_, _, _)
FilterLoop(verdict, n, k) ==
    IF k > n THEN [evals |-> <<>>, shouldProcess |-> TRUE]
    ELSE IF ~verdict[k] THEN [evals |-> <<k>>, shouldProcess |-> FALSE]
    ELSE LET rest == FilterLoop(verdict, n, k + 1)
         IN  [evals |-> <<k>> \o rest.evals, shouldProcess |-> rest.shouldProcess]

\* one entry of the history
Call(i, cat, kind, h, f, ok, r, arg) ==
    [op |-> i, cat |-> cat, kind |-> kind, h |-> h, f |-> f, ok |-> ok, ret |-> r,
     arg |-> arg]

HandlerErrorLogged(r) == Nil

\* what a handler's error does to the callback: returned as it is
HandlerError(r) == r

\* after entry h of a category: the next entry, or the next block
AfterEntry(cbs, e, p, pos) ==
    IF pos.h < Len(Entries(cbs, pos.phase)) THEN [pos EXCEPT !.h = @ + 1]
    ELSE IF e.kind = "commit" THEN Seek(cbs, e, p, pos.op, PhaseIndex(pos.phase) + 1)
    ELSE Returned

\* one (filters, handler) entry of the category at pc; the local `post` lives
\* as long as the callback is at the operation it was converted for
DispatchEntry(cat) ==
    /\ LET entry == Entries(callbacks, cat)[pc.h]
           ev == EventOf(cat, evt, pc.op, post)
       IN  \E verdict \in [1..Len(entry.Filters) -> BOOLEAN],
              r \in {Nil, <<entry.Handler>>} :
             LET fl == FilterLoop(verdict, Len(entry.Filters), 1)
                 fcalls == [k \in 1..Len(fl.evals) |->
                              Call(pc.op, cat, "filter", pc.h, fl.evals[k],
                                   verdict[fl.evals[k]], Nil, ev)]
                 hcall == Call(pc.op, cat, "handler", pc.h, 0, r = Nil, r, ev)
             IN  IF fl.shouldProcess
                 THEN /\ trace' = trace \o fcalls \o <<hcall>>
                      /\ IF r # Nil
                         THEN pc' = Returned /\ ret' = HandlerError(r)
                         ELSE pc' = AfterEntry(callbacks, evt, post, pc) /\ ret' = ret
                 ELSE /\ trace' = trace \o fcalls
                      /\ pc' = AfterEntry(callbacks, evt, post, pc)
                      /\ ret' = ret
    /\ post' = IF pc'.op = pc.op THEN post ELSE NoPost
    /\ UNCHANGED <<callbacks, evt, svars, xvars>>

\* a commit frame arrives: RepoCommit builds the CommitEvent and calls OnCommit
RepoCommit ==
    /\ pc.phase = "idle"
    /\ \E w \in WireCommits :
         /\ evt' = CommitEventOf(w)
         /\ pc' = Seek(callbacks, CommitEventOf(w), NoPost, 1, 1)
    /\ trace' = <<>>
    /\ post' = NoPost
    /\ ret' = Nil
    /\ UNCHANGED <<callbacks, svars, xvars>>

\* handler.HandleRawOperation(&op) for raw handler pc.h
RawHandler ==
    /\ pc.phase = "raw"
    /\ \E r \in {Nil, <<callbacks.Handlers[pc.h]>>} :
         /\ trace' = Append(trace, Call(pc.op, "raw", "handler", pc.h, 0, r = Nil, r,
                                        evt.Ops[pc.op]))
         /\ IF r # Nil
            THEN pc' = Returned /\ ret' = HandlerError(r)
            ELSE /\ ret' = ret
                 /\ pc' = IF pc.h < Len(callbacks.Handlers)
                          THEN [pc EXCEPT !.h = @ + 1]
                          ELSE Seek(callbacks, evt, post, pc.op, PhaseIndex("raw") + 1)
    /\ UNCHANGED <<callbacks, evt, post, svars, xvars>>

\* post, err := PostFromCommitEvent(*evt)
ConvertPost ==
    /\ pc.phase = "convert"
    /\ LET c == PostFromCommitEvent(evt)
           dcalls == [k \in 1..Len(c.decoded) |->
                        Call(pc.op, "post", "decode", 0, 0, c.err = Nil, c.err,
                             c.decoded[k])]
       IN  /\ trace' = trace \o dcalls
           /\ IF c.err # Nil
              THEN /\ pc' = Returned
                   /\ ret' = <<"failed to convert post">> \o c.err
                   /\ post' = NoPost
              ELSE /\ post' = c.post
                   /\ pc' = Seek(callbacks, evt, c.post, pc.op, PhaseIndex("convert") + 1)
                   /\ ret' = ret
    /\ UNCHANGED <<callbacks, evt, svars, xvars>>

\* the loops over the handler lists, one entry per step
PostHandlers == pc.phase = "post" /\ DispatchEntry("post")
CommentHandlers == pc.phase = "comment" /\ DispatchEntry("comment")
FollowHandlers == pc.phase = "follow" /\ DispatchEntry("follow")
LikeHandlers == pc.phase = "like" /\ DispatchEntry("like")
RepostHandlers == pc.phase = "repost" /\ DispatchEntry("repost")
HandleHandlers == pc.phase = "handle" /\ DispatchEntry("handle")
InfoHandlers == pc.phase = "info" /\ DispatchEntry("info")
MigrateHandlers == pc.phase = "migrate" /\ DispatchEntry("migrate")
TombstoneHandlers == pc.phase = "tombstone" /\ DispatchEntry("tombstone")

\* a pointer to a string on the wire
NoStr == [nil |-> TRUE, s |-> ""]
Str(x) == [nil |-> FALSE, s |-> x]

DerefDropped(ptr) == ""

\* message := ""; if evt.Message != nil { message = *evt.Message }
Deref(ptr) == IF ptr.nil THEN "" ELSE ptr.s

\* a passthrough frame: the callback of its kind starts at the first entry of
\* the kind's handler list, and returns nil when the list is empty
Passthrough(cat, e) ==
    /\ evt' = e
    /\ pc' = IF Len(Entries(callbacks, cat)) > 0
             THEN [phase |-> cat, op |-> 0, h |-> 1]
             ELSE Returned
    /\ trace' = <<>>
    /\ post' = NoPost
    /\ ret' = Nil
    /\ UNCHANGED <<callbacks, svars, xvars>>

RepoHandle ==
    /\ pc.phase = "idle"
    /\ \E w \in [Did : {"did:plc:abc"}, Handle : {"alice.test", "bob.test"}] :
         Passthrough("handle", [kind |-> "handle", Did |-> w.Did, Handle |-> w.Handle,
                                wire |-> w])

RepoInfo ==
    /\ pc.phase = "idle"
    /\ \E w \in [Name : {"OutdatedCursor"}, Message : {NoStr, Str("msg")}] :
         Passthrough("info", [kind |-> "info", Name |-> w.Name,
                             Message |-> Deref(w.Message), wire |-> w])

RepoMigrate ==
    /\ pc.phase = "idle"
    /\ \E w \in [Did : {"did:plc:abc"}, MigrateTo : {NoStr, Str("pds.test")}] :
         Passthrough("migrate", [kind |-> "migrate", Did |-> w.Did,
                                MigrateTo |-> Deref(w.MigrateTo), wire |-> w])

RepoTombstone ==
    /\ pc.phase = "idle"
    /\ \E w \in [Did : {"did:plc:abc"}, Time : {"t"}] :
         Passthrough("tombstone", [kind |-> "tombstone", Did |-> w.Did, Time |-> w.Time,
                                   wire |-> w])

\* the read loop takes the callback's result: an error ends the stream, nil lets
\* it read the next frame; the event and the callback's locals are gone
ReadLoop ==
    /\ pc.phase = "returned"
    /\ pc' = IF ret # Nil THEN Terminated ELSE Idle
    /\ evt' = NoEvent
    /\ trace' = <<>>
    /\ post' = NoPost
    /\ UNCHANGED <<callbacks, ret, svars, xvars>>

Init ==
    /\ callbacks \in CallbackSets
    /\ evt = NoEvent
    /\ pc = Idle
    /\ post = NoPost
    /\ trace = <<>>
    /\ ret = Nil
    /\ wsConn = 0
    /\ conns = <<>>
    /\ procs = <<>>
    /\ closeRet = NoClose
    /\ decode = NoDecode
    /\ client = NoClient
    /\ builder = NoBuilder
    /\ conversion = NoConversion

Next ==
    \/ RepoCommit
    \/ RawHandler
    \/ ConvertPost
    \/ PostHandlers
    \/ CommentHandlers
    \/ FollowHandlers
    \/ LikeHandlers
    \/ RepostHandlers
    \/ RepoHandle
    \/ RepoInfo
    \/ RepoMigrate
    \/ RepoTombstone
    \/ HandleHandlers
    \/ InfoHandlers
    \/ MigrateHandlers
    \/ TombstoneHandlers
    \/ ReadLoop

Spec == Init /\ [][Next]_vars

\* ------------------------------------------------ subscription, reconnect
\* Firehose.Subscribe and its goroutine. A proc is one Subscribe call by the
\* caller together with the goroutines that continue it: the goroutine that
\* runs the read loop and, after a stream error, calls Subscribe again, whose
\* goroutine then runs the next read loop.

ReconnectDelay == 5    \* time.Sleep(5 * time.Second), in seconds

\* the callbacks argument is a pointer: named, "nil" for a nil pointer
CallbackPtrs == {"cbA"}

\* read, active, done: the frames of the session in progress, numbered in the
\* order they are read: how many were read, those whose callback is running,
\* those whose callback has returned (in the order they returned).
\* cancelled: the context handed to Subscribe is cancelled.
NewProc(cb) ==
    [pc |-> "dial", callbacks |-> cb, conn |-> 0, sessions |-> 0, err |-> "",
     timer |-> 0, waited |-> 0, failedReconnects |-> 0, delivered |-> "",
     closedByCaller |-> FALSE, connAtClose |-> 0,
     read |-> 0, active |-> {}, done |-> <<>>, cbErr |-> FALSE,
     cancelled |-> FALSE]

SchedulerParallel(proc) == TRUE

\* sequential.NewScheduler: the callback of a frame runs on the goroutine of the
\* read loop, which reads the next frame only when the callback has returned
SchedulerFree(proc) == proc.active = {}

DialIgnoresContext(proc) == {"ok", "fail"}

\* dialer.DialContext(ctx, ...): fails when ctx is cancelled, else succeeds or
\* fails
DialOutcomes(proc) == IF proc.cancelled THEN {"fail"} ELSE {"ok", "fail"}

AfterCloseKept(h) == h

\* f.wsConn = nil
AfterClose(h) == 0

ReconnectAlways(err) == TRUE

\* the goroutine's test on the read loop's result: if err != nil
ReconnectOn(err) == err # "nil"

ReconnectCallbacksFresh(proc) == "nil"

\* the callbacks the goroutine hands to the Subscribe call that reconnects
ReconnectCallbacks(proc) == proc.callbacks

RetryAfterFailedReconnect(proc) ==
    [proc EXCEPT !.pc = "sleep", !.timer = ReconnectDelay, !.waited = 0,
                 !.failedReconnects = @ + 1]

\* a Subscribe call whose dial failed: the first call returns the error to its
\* caller; the goroutine that reconnects prints it and ends
DialFailed(proc) ==
    IF proc.sessions = 0 THEN [proc EXCEPT !.pc = "failed"]
    ELSE [proc EXCEPT !.pc = "gaveup", !.failedReconnects = @ + 1]

\* a call of Subscribe(ctx, callbacks) on the Firehose, the n-th at most; nil
\* callbacks are refused
SubscribeCall(n) ==
    /\ Len(procs) < n
    /\ \E cb \in CallbackPtrs \cup {"nil"} :
         procs' = Append(procs, IF cb = "nil"
                                THEN [NewProc(cb) EXCEPT !.pc = "failed"]
                                ELSE NewProc(cb))
    /\ closeRet' = NoClose
    /\ UNCHANGED <<xvars, dvars, wsConn, conns>>

\* the caller calls Subscribe
Subscribe == SubscribeCall(MaxSubscribes)

\* dialer.DialContext, of a first Subscribe call or of a reconnect
Dial ==
    \E p \in 1..Len(procs) :
        /\ procs[p].pc = "dial"
        /\ \/ /\ "ok" \in DialOutcomes(procs[p])
              /\ Len(conns) < MaxConns
              /\ conns' = Append(conns, [open |-> TRUE, owner |-> p,
                                         callbacks |-> procs[p].callbacks])
              /\ procs' = [procs EXCEPT ![p].pc = "store",
                                        ![p].conn = Len(conns) + 1]
           \/ /\ "fail" \in DialOutcomes(procs[p])
              /\ procs' = [procs EXCEPT ![p] = DialFailed(procs[p])]
              /\ UNCHANGED conns
        /\ closeRet' = NoClose
        /\ UNCHANGED <<xvars, dvars, wsConn>>

\* f.mu.Lock(); f.wsConn = conn; f.mu.Unlock(); then the goroutine is started
Store ==
    \E p \in 1..Len(procs) :
        /\ procs[p].pc = "store"
        /\ wsConn' = procs[p].conn
        /\ procs' = [procs EXCEPT ![p].pc = "run", ![p].sessions = @ + 1,
                                  ![p].delivered = ""]
        /\ closeRet' = NoClose
        /\ UNCHANGED <<xvars, dvars, conns>>

\* the read loop reads a frame and the scheduler starts the callback of its
\* kind, of the callbacks the session was built with; delivered is history:
\* the callbacks the session's last frame went to
Frame ==
    \E p \in 1..Len(procs) :
        /\ procs[p].pc = "run"
        /\ conns[procs[p].conn].open
        /\ ~procs[p].cbErr
        /\ procs[p].read < MaxFrames
        /\ SchedulerFree(procs[p])
        /\ procs' = [procs EXCEPT ![p].delivered = conns[procs[p].conn].callbacks,
                                  ![p].read = @ + 1,
                                  ![p].active = @ \cup {procs[p].read + 1}]
        /\ closeRet' = NoClose
        /\ UNCHANGED <<xvars, dvars, wsConn, conns>>

\* the callback of a frame returns, nil or an error, to the read loop
CallbackReturns ==
    \E p \in 1..Len(procs) :
        /\ procs[p].pc = "run"
        /\ \E k \in procs[p].active, r \in {"nil", "error"} :
             procs' = [procs EXCEPT ![p].active = @ \ {k},
                                    ![p].done = Append(@, k),
                                    ![p].cbErr = @ \/ r = "error"]
        /\ closeRet' = NoClose
        /\ UNCHANGED <<xvars, dvars, wsConn, conns>>

\* the results events.HandleRepoStream can return: an error (a read on a closed
\* or broken connection, a callback's error, the cancelled context's) or, on a
\* connection still open with no callback error and no cancellation, nil
StreamResults(proc) ==
    {"error"} \cup (IF conns[proc.conn].open /\ ~proc.cbErr /\ ~proc.cancelled
                    THEN {"nil"} ELSE {})

LoopDoneAnytime(proc) == TRUE

\* a callback runs on the goroutine of the read loop (sequential scheduler), so
\* events.HandleRepoStream returns only when no callback is in progress
LoopDone(proc) == proc.active = {}

AfterStreamLeftOpen(c) == c

\* the connection events.HandleRepoStream was given, once it has returned: its
\* context is cancelled, which closes the connection
AfterStream(c) == [c EXCEPT !.open = FALSE]

\* events.HandleRepoStream returns, no callback being in progress; it leaves
\* the connection closed. The frames of the session are forgotten.
StreamEnds ==
    \E p \in 1..Len(procs) :
        /\ procs[p].pc = "run"
        /\ LoopDone(procs[p])
        /\ \E err \in StreamResults(procs[p]) :
             LET q == [procs[p] EXCEPT !.read = 0, !.done = <<>>, !.cbErr = FALSE]
             IN  procs' = [procs EXCEPT ![p] =
                             IF ReconnectOn(err)
                             THEN [q EXCEPT
                                     !.pc = "sleep", !.err = err,
                                     !.timer = ReconnectDelay, !.waited = 0,
                                     !.callbacks = ReconnectCallbacks(procs[p])]
                             ELSE [q EXCEPT !.pc = "ended", !.err = err]]
        /\ conns' = [conns EXCEPT ![procs[p].conn] = AfterStream(@)]
        /\ closeRet' = NoClose
        /\ UNCHANGED <<xvars, dvars, wsConn>>

\* a second of time.Sleep passes; when the sleep is over the goroutine calls
\* f.Subscribe
Tick ==
    \E p \in 1..Len(procs) :
        /\ procs[p].pc = "sleep"
        /\ procs[p].timer > 0
        /\ procs' = [procs EXCEPT ![p].timer = @ - 1,
                                  ![p].waited = @ + 1,
                                  ![p].pc = IF procs[p].timer = 1 THEN "dial"
                                            ELSE "sleep"]
        /\ closeRet' = NoClose
        /\ UNCHANGED <<xvars, dvars, wsConn, conns>>

\* Firehose.Close, called by the caller: a stored connection is closed, which
\* fails when it is closed already, and the handle is cleared. closedByCaller
\* and connAtClose are history: the procs that had a session, or a reconnect
\* wait, when it ran.
Close ==
    /\ Len(procs) > 0
    /\ IF wsConn # 0
       THEN /\ conns' = [conns EXCEPT ![wsConn].open = FALSE]
            /\ wsConn' = AfterClose(wsConn)
            /\ closeRet' = [ret |-> IF conns[wsConn].open THEN "nil" ELSE "error",
                            after |-> closeRet.ret]
       ELSE /\ UNCHANGED <<conns, wsConn>>
            /\ closeRet' = [ret |-> "nil", after |-> closeRet.ret]
    /\ procs' = [p \in 1..Len(procs) |->
                    IF procs[p].pc \in {"run", "sleep"}
                    THEN [procs[p] EXCEPT !.closedByCaller = TRUE,
                                          !.connAtClose = procs[p].conn]
                    ELSE procs[p]]
    /\ UNCHANGED <<xvars, dvars>>

\* the caller cancels the context it handed to Subscribe
Cancel ==
    \E p \in 1..Len(procs) :
        /\ ~procs[p].cancelled
        /\ procs' = [procs EXCEPT ![p].cancelled = TRUE]
        /\ closeRet' = NoClose
        /\ UNCHANGED <<xvars, dvars, wsConn, conns>>

InitSupervisor ==
    /\ callbacks = NoCallbacks
    /\ evt = NoEvent
    /\ pc = Idle
    /\ post = NoPost
    /\ trace = <<>>
    /\ ret = Nil
    /\ wsConn = 0
    /\ conns = <<>>
    /\ procs = <<>>
    /\ closeRet = NoClose
    /\ decode = NoDecode
    /\ client = NoClient
    /\ builder = NoBuilder
    /\ conversion = NoConversion

NextSupervisor ==
    \/ Subscribe
    \/ Dial
    \/ Store
    \/ Frame
    \/ CallbackReturns
    \/ StreamEnds
    \/ Tick
    \/ Close
    \/ Cancel

SpecSupervisor == InitSupervisor /\ [][NextSupervisor]_vars

\* a step of subscription p that its goroutines take when left to run: the
\* dial, the store, a second of the sleep, the return of a callback, and the
\* return of the read loop once its context is cancelled, its connection
\* closed or a callback has failed
Progress(p) ==
    /\ p <= Len(procs)
    /\ \/ Dial
       \/ Store
       \/ Tick
       \/ CallbackReturns
       \/ /\ procs[p].pc = "run"
          /\ \/ procs[p].cancelled
             \/ procs[p].cbErr
             \/ ~conns[procs[p].conn].open
          /\ StreamEnds
    /\ procs'[p] # procs[p]

\* The subscriptions of a caller that cancels contexts and does not call
\* Close. To a subscription a call of Close is a connection that breaks, which
\* StreamEnds lets happen at any time.
NextCancel ==
    \/ Subscribe
    \/ Dial
    \/ Store
    \/ Frame
    \/ CallbackReturns
    \/ StreamEnds
    \/ Tick
    \/ Cancel

\* the goroutines are scheduled and the handlers return
SpecCancel ==
    /\ InitSupervisor
    /\ [][NextCancel]_vars
    /\ \A p \in 1..MaxSubscribes : WF_vars(Progress(p))

\* BskyClient.SubscribeToFirehose: the client makes its EnhancedFirehose once and
\* every call goes to that one, hence to the one Firehose inside it
SubscribeToFirehose == SubscribeCall(MaxShared)

\* The sessions of the Subscribe calls made through one client, as far as the
\* connection handle goes: connect, store, end of stream, reconnect, Close.
NextShared ==
    \/ SubscribeToFirehose
    \/ Dial
    \/ Store
    \/ StreamEnds
    \/ Tick
    \/ Close

SpecShared == InitSupervisor /\ [][NextShared]_vars

\* The sessions of the Subscribe calls made on one Firehose, with their frames
\* and a caller that calls Close and cancels no context.
NextStreams ==
    \/ SubscribeToFirehose
    \/ Dial
    \/ Store
    \/ Frame
    \/ CallbackReturns
    \/ StreamEnds
    \/ Tick
    \/ Close

\* the goroutines are scheduled and the handlers return
SpecStreams ==
    /\ InitSupervisor
    /\ [][NextStreams]_vars
    /\ \A p \in 1..MaxShared : WF_vars(Progress(p))

\* ------------------------------------------------ DecodeRecord, step by step
\* A call of RepoOperation.DecodeRecord(target) by any caller of the package,
\* with the blocks, the cid and the target record it is given. decode.steps is
\* history: the stages the call went into, "next" once per block read.

ZeroRecord == [Text |-> "", ReplyRoot |-> <<>>, EmbedOk |-> TRUE]

\* blocks an archive may hold: two with the same cid and different records, one
\* whose bytes are not the CBOR of a record, one that cannot be read
ExtractBlocks ==
    { Block("c1", PlainPost),
      Block("c1", ReplyPost),
      Block("c2", ReplyPost),
      [cid |-> "c2", readable |-> TRUE, cbor |-> FALSE, rec |-> PlainPost],
      [cid |-> "c9", readable |-> FALSE, cbor |-> FALSE, rec |-> ZeroRecord] }

\* op.Blocks: a nil slice, a slice of length 0, bytes car.NewCarReader rejects,
\* or an archive with a header and blocks in any order
ExtractArchives ==
    { ArchiveNil,
      [bytes |-> "empty", header |-> FALSE, blocks |-> <<>>],
      ArchiveCorrupt }
    \cup { [bytes |-> "data", header |-> TRUE, blocks |-> bs] :
               bs \in SeqsUpTo(ExtractBlocks, MaxBlocks) }

\* op.Cid: empty, of a block, of no block, not a cid
ExtractCids == {"", "c1", "c2", "c3", "bad"}

\* the record the caller hands in: fresh, or holding values already
ExtractTargets == {ZeroRecord, [Text |-> "old", ReplyRoot |-> <<>>, EmbedOk |-> TRUE]}

DecodeReturn(err) == [decode EXCEPT !.pc = "done", !.err = err]

\* a call begins: if op.Blocks == nil, if op.Cid == ""
DecodeBegin ==
    /\ decode.pc = "call"
    /\ decode' =
          IF decode.Blocks.bytes = "nil"
          THEN DecodeReturn(<<"no blocks data available to decode">>)
          ELSE IF decode.Cid = ""
          THEN DecodeReturn(<<"no CID available for record">>)
          ELSE [decode EXCEPT !.pc = "parse"]
    /\ UNCHANGED <<dvars, svars, client, builder, conversion>>

\* recordCid, err := cid.Parse(op.Cid)
ParseCid ==
    /\ decode.pc = "parse"
    /\ decode' =
          IF ~CidParses(decode.Cid)
          THEN [DecodeReturn(<<"invalid CID">>) EXCEPT !.steps = Append(@, "parse")]
          ELSE [decode EXCEPT !.pc = "open", !.steps = Append(@, "parse")]
    /\ UNCHANGED <<dvars, svars, client, builder, conversion>>

\* cr, err := car.NewCarReader(bytes.NewReader(op.Blocks))
NewCarReader ==
    /\ decode.pc = "open"
    /\ decode' =
          IF ~decode.Blocks.header
          THEN [DecodeReturn(<<"failed to create CAR reader">>)
                   EXCEPT !.steps = Append(@, "open")]
          ELSE [decode EXCEPT !.pc = "next", !.steps = Append(@, "open")]
    /\ UNCHANGED <<dvars, svars, client, builder, conversion>>

\* v.UnmarshalCBOR on bytes that are not the CBOR of a record: the target is
\* reset, and filled as far as the bytes could be read
PartialDecodes(rec) == {ZeroRecord, [ZeroRecord EXCEPT !.Text = rec.Text]}

IsTargetLast(bs, k, c) ==
    bs[k].cid = c /\ \A j \in (k + 1)..Len(bs) : bs[j].cid # c

\* block.Cid().Equals(recordCid), for the block at position k
IsTarget(bs, k, c) == bs[k].cid = c

ExhaustedResetsTarget(d) ==
    [d EXCEPT !.pc = "done", !.err = <<"block not found in CAR data">>,
              !.target = ZeroRecord]

\* cr.Next() returned io.EOF: break, and the return after the loop
Exhausted(d) == [d EXCEPT !.pc = "done", !.err = <<"block not found in CAR data">>]

\* one turn of the loop: block, err := cr.Next(), and what follows it
NextBlock ==
    /\ decode.pc = "next"
    /\ LET k == decode.k + 1
           bs == decode.Blocks.blocks
           d == [decode EXCEPT !.k = k, !.steps = Append(@, "next")]
       IN  IF k > Len(bs)
           THEN decode' = Exhausted([d EXCEPT !.k = decode.k])
           ELSE IF ~bs[k].readable
           THEN decode' = [d EXCEPT !.pc = "done", !.err = <<"error reading block">>]
           ELSE IF ~IsTarget(bs, k, decode.Cid)
           THEN decode' = d
           ELSE IF bs[k].cbor
           THEN decode' = [d EXCEPT !.pc = "done", !.err = Nil,
                                    !.target = bs[k].rec,
                                    !.steps = Append(@, "unmarshal")]
           ELSE \E t \in PartialDecodes(bs[k].rec) :
                   decode' = [d EXCEPT !.pc = "done",
                                       !.err = <<"cbor: malformed record">>,
                                       !.target = t,
                                       !.steps = Append(@, "unmarshal")]
    /\ UNCHANGED <<dvars, svars, client, builder, conversion>>

\* the caller calls DecodeRecord again, with the same operation and the same
\* target; prev is history: what the call before returned and left in the target
DecodeAgain ==
    /\ decode.pc = "done"
    /\ decode.prev = <<>>
    /\ decode' = [decode EXCEPT !.pc = "call", !.err = Nil, !.steps = <<>>,
                                !.k = 0, !.atCall = decode.target,
                                !.prev = <<[err |-> decode.err,
                                           target |-> decode.target,
                                           atCall |-> decode.atCall,
                                           steps |-> decode.steps]>>]
    /\ UNCHANGED <<dvars, svars, client, builder, conversion>>

InitExtractor ==
    /\ callbacks = NoCallbacks
    /\ evt = NoEvent
    /\ pc = Idle
    /\ post = NoPost
    /\ trace = <<>>
    /\ ret = Nil
    /\ wsConn = 0
    /\ conns = <<>>
    /\ procs = <<>>
    /\ closeRet = NoClose
    /\ client = NoClient
    /\ builder = NoBuilder
    /\ conversion = NoConversion
    /\ \E c \in ExtractCids, a \in ExtractArchives, t \in ExtractTargets :
          decode = [pc |-> "call", Cid |-> c, Blocks |-> a, target |-> t,
                    atCall |-> t, err |-> Nil, steps |-> <<>>, k |-> 0,
                    prev |-> <<>>]

NextExtractor ==
    \/ DecodeBegin
    \/ ParseCid
    \/ NewCarReader
    \/ NextBlock
    \/ DecodeAgain

SpecExtractor == InitExtractor /\ [][NextExtractor]_vars

\* ------------------------------------------------------ BskyClient session
\* client.Auth of the xrpc client inside a BskyClient, and the calls of Connect,
\* RefreshSession and ensureValidSession. A call is two steps, its entry and its
\* body; via names the caller of the body. refreshRet and refreshBefore are
\* history: what the last call of RefreshSession returned and the Auth it found.

NoAuth == [nil |-> TRUE, AccessJwt |-> "", RefreshJwt |-> ""]
AuthInfo(a, r) == [nil |-> FALSE, AccessJwt |-> a, RefreshJwt |-> r]

\* the sessions the server may answer with
Sessions == {AuthInfo(a, r) : a \in {"", "a1"}, r \in {"", "r1", "r2"}}

NewClient ==
    [pc |-> "idle", via |-> "", Auth |-> NoAuth, ret |-> Nil,
     refreshRet |-> <<"none">>, refreshBefore |-> NoAuth]

\* the caller calls client.Connect or client.RefreshSession, or a method of the
\* client that begins with ensureValidSession
CallerConnects ==
    /\ client.pc = "idle"
    /\ client' = [client EXCEPT !.pc = "connect", !.via = "caller"]
    /\ UNCHANGED <<dvars, svars, decode, builder, conversion>>

CallerRefreshes ==
    /\ client.pc = "idle"
    /\ client' = [client EXCEPT !.pc = "refresh", !.via = "caller"]
    /\ UNCHANGED <<dvars, svars, decode, builder, conversion>>

\* hasAuth := c.client.Auth != nil && c.client.Auth.AccessJwt != ""
HasAuth(auth) == ~auth.nil /\ auth.AccessJwt # ""

ensureValidSession ==
    /\ client.pc = "idle"
    /\ client' = [client EXCEPT !.pc = IF HasAuth(client.Auth) THEN "refresh"
                                       ELSE "connect",
                                !.via = "ensure"]
    /\ UNCHANGED <<dvars, svars, decode, builder, conversion>>

\* Connect: the limiter's wait or the request may fail; on success the session
\* is stored
Connect ==
    /\ client.pc = "connect"
    /\ \/ \E err \in {<<"rate limit exceeded">>, <<"failed to create session">>} :
             client' = [client EXCEPT !.pc = "idle", !.via = "", !.ret = err]
       \/ \E s \in Sessions :
             client' = [client EXCEPT !.pc = "idle", !.via = "", !.ret = Nil,
                                     !.Auth = s]
    /\ UNCHANGED <<dvars, svars, decode, builder, conversion>>

\* refreshJwt := c.client.Auth.RefreshJwt: <<>> when c.client.Auth is nil, the
\* dereference of a nil pointer
ReadRefreshJwt(auth) == IF auth.nil THEN <<>> ELSE <<auth.RefreshJwt>>

\* RefreshSession returns err: to its caller, or to ensureValidSession, which
\* then calls Connect
RefreshFailed(err) ==
    [client EXCEPT !.pc = IF client.via = "ensure" THEN "connect" ELSE "idle",
                   !.via = IF client.via = "ensure" THEN "ensure" ELSE "",
                   !.ret = err, !.refreshRet = err, !.refreshBefore = client.Auth]

RefreshSession ==
    /\ client.pc = "refresh"
    /\ LET refreshJwt == ReadRefreshJwt(client.Auth)
       IN  IF refreshJwt = <<>>
           THEN client' = [client EXCEPT !.pc = "panicked",
                                         !.refreshRet = <<"panic">>,
                                         !.refreshBefore = client.Auth]
           ELSE IF refreshJwt[1] = ""
           THEN client' = RefreshFailed(<<"no refresh token available">>)
           ELSE \/ \E err \in {<<"rate limit exceeded">>,
                                <<"failed to refresh session">>} :
                     client' = RefreshFailed(err)
                \/ \E s \in Sessions :
                     client' = [client EXCEPT !.pc = "idle", !.via = "", !.ret = Nil,
                                             !.Auth = s, !.refreshRet = Nil,
                                             !.refreshBefore = client.Auth]
    /\ UNCHANGED <<dvars, svars, decode, builder, conversion>>

InitClient ==
    /\ callbacks = NoCallbacks
    /\ evt = NoEvent
    /\ pc = Idle
    /\ post = NoPost
    /\ trace = <<>>
    /\ ret = Nil
    /\ wsConn = 0
    /\ conns = <<>>
    /\ procs = <<>>
    /\ closeRet = NoClose
    /\ decode = NoDecode
    /\ builder = NoBuilder
    /\ conversion = NoConversion
    /\ client = NewClient

NextClient ==
    \/ CallerConnects
    \/ CallerRefreshes
    \/ ensureValidSession
    \/ Connect
    \/ RefreshSession

SpecClient == InitClient /\ [][NextClient]_vars

\* ------------------------------------------------------------ post.Builder
\* A string of the builder is the sequence of its bytes, len is Len. The
\* builder is made with the auto-detection options off, as DefaultOptions
\* leaves them, so processText finds no match and adds its text as one segment.
\* by, in a segment, is history: the operation that added it and its arguments.

JoinAsIs == "JoinAsIs"
JoinWithSpaces == "JoinWithSpaces"

ErrInvalidURL == <<"invalid URL">>
ErrInvalidMention == <<"invalid mention format">>
ErrInvalidTag == <<"invalid tag format">>
ErrMismatchedImages == <<"images and blobs arrays must have the same length">>
ErrPostTooLong == <<"post exceeds maximum length">>

\* unicode.IsLetter(r) || unicode.IsNumber(r) || r == '_' || r == '-'
WordBytes == {"a", "b", "t", "x", "f", "h", "s", "i", "n", "v", "l", "d", "_", "-"}

ContainsAny(str, chars) == \E k \in 1..Len(str) : str[k] \in chars

\* strings.TrimLeft(str, "#")
RECURSIVE TrimLeftHash(_)
TrimLeftHash(str) ==
    IF Len(str) > 0 /\ str[1] = "#" THEN TrimLeftHash(Tail(str)) ELSE str

Invalid == <<"i", "n", "v", "a", "l", "i", "d">>

validateMention(username) ==
    IF username = <<>> THEN ErrInvalidMention
    ELSE IF ContainsAny(username, {" ", "\t", "\n", "@"}) THEN ErrInvalidMention
    ELSE IF \E k \in 1..Len(username) : username[k] \notin WordBytes
         THEN ErrInvalidMention
    ELSE IF username = Invalid THEN ErrInvalidMention
    ELSE Nil

validateTag(tag) ==
    IF tag = <<>> THEN ErrInvalidTag
    ELSE LET t == TrimLeftHash(tag) IN
         IF t = <<>> THEN ErrInvalidTag
         ELSE IF ContainsAny(t, {" ", "\t", "\n", "#", "@"}) THEN ErrInvalidTag
         ELSE IF \E k \in 1..Len(t) : t[k] \notin WordBytes THEN ErrInvalidTag
         ELSE IF t = Invalid THEN ErrInvalidTag
         ELSE Nil

\* url.Parse on the strings of UriInputs: scheme, "://", host
Scheme(uri) ==
    LET cs == {k \in 1..Len(uri) : uri[k] = ":"}
    IN  IF cs = {} THEN <<>>
        ELSE SubSeq(uri, 1, (CHOOSE k \in cs : \A j \in cs : k <= j) - 1)
Host(uri) ==
    LET n == Len(Scheme(uri))
    IN  IF n > 0 /\ Len(uri) >= n + 3 /\ SubSeq(uri, n + 1, n + 3) = <<":", "/", "/">>
        THEN SubSeq(uri, n + 4, Len(uri))
        ELSE <<>>

validateURL(uri) ==
    IF uri = <<>> THEN ErrInvalidURL
    ELSE IF Scheme(uri) = <<>> \/ Host(uri) = <<>> THEN ErrInvalidURL
    ELSE Nil

\* len(additionalText) plus the lengths of the segments' texts
RECURSIVE SegmentsLength(_)
SegmentsLength(segs) ==
    IF segs = <<>> THEN 0 ELSE Len(Head(segs).text) + SegmentsLength(Tail(segs))

validatePostLength(b, additionalText) ==
    IF Len(additionalText) + SegmentsLength(b.segments) > b.options.MaxLength
    THEN ErrPostTooLong
    ELSE Nil

NoFacet == <<>>
Facet(ftype, value, text) == <<[Type |-> ftype, Value |-> value, Text |-> text]>>
Segment(text, facet, by) == [text |-> text, facet |-> facet, by |-> by]

\* b.segments = append(b.segments, segment{...}); what Build returned before
\* is no longer what the builder would build
Appended(b, seg) == [b EXCEPT !.segments = Append(@, seg), !.built = <<>>]
Failed(b, err) == [b EXCEPT !.err = err, !.built = <<>>]
Skipped(b) == [b EXCEPT !.built = <<>>]

AddFacetOnto(b, text, ftype, value, by) ==
    Appended(b, Segment(text, Facet(ftype, value, text), by))

\* the values the operations are called with
TextInputs == {<<>>, <<"a">>, <<"a", "b">>}
MentionInputs == {<<"a">>, <<"a", " ">>}
TagInputs == {<<"t">>, <<"#", "t">>, <<"#">>}
UriInputs == {<<"s", ":", "/", "/", "h">>, <<"s">>}
FacetTexts == {<<>>, <<"f">>}

\* values of WithMaxLength, small enough for the texts above to exceed
MaxLengths == {2, 4}

\* AddText -> processText, no auto-detection
AddText ==
    /\ builder.pc = "building"
    /\ Len(builder.segments) < MaxSegments
    /\ \E text \in TextInputs :
         builder' =
            IF text = <<>> THEN Skipped(builder)
            ELSE IF builder.err # Nil THEN Skipped(builder)
            ELSE IF validatePostLength(builder, text) # Nil
                 THEN Failed(builder, validatePostLength(builder, text))
            ELSE Appended(builder, Segment(text, NoFacet, <<"AddText", text>>))
    /\ UNCHANGED <<dvars, svars, decode, client, conversion>>

AddMention ==
    /\ builder.pc = "building"
    /\ Len(builder.segments) < MaxSegments
    /\ \E username \in MentionInputs :
         builder' =
            IF builder.err # Nil THEN Skipped(builder)
            ELSE IF validateMention(username) # Nil
                 THEN Failed(builder, validateMention(username))
            ELSE AddFacetOnto(builder, <<"@">> \o username, "mention", "did:plc:a",
                              <<"AddMention", username>>)
    /\ UNCHANGED <<dvars, svars, decode, client, conversion>>

\* the number of leading # of tag
NumHash(tag) == Len(tag) - Len(TrimLeftHash(tag))

AddTag ==
    /\ builder.pc = "building"
    /\ Len(builder.segments) < MaxSegments
    /\ \E tag \in TagInputs :
         LET tagWithoutHash == TrimLeftHash(tag)
             displayText == IF NumHash(tag) = 0 THEN <<"#">> \o tagWithoutHash ELSE tag
         IN  builder' =
                IF builder.err # Nil THEN Skipped(builder)
                ELSE IF validateTag(tagWithoutHash) # Nil
                     THEN Failed(builder, validateTag(tagWithoutHash))
                ELSE AddFacetOnto(builder, displayText, "tag", tagWithoutHash,
                                  <<"AddTag", tag>>)
    /\ UNCHANGED <<dvars, svars, decode, client, conversion>>

AddLink ==
    /\ builder.pc = "building"
    /\ Len(builder.segments) < MaxSegments
    /\ \E text \in {<<"x">>}, uri \in UriInputs :
         builder' =
            IF builder.err # Nil THEN Skipped(builder)
            ELSE IF validateURL(uri) # Nil THEN Failed(builder, validateURL(uri))
            ELSE AddFacetOnto(builder, text, "link", uri, <<"AddLink", text>>)
    /\ UNCHANGED <<dvars, svars, decode, client, conversion>>

AddURLLink ==
    /\ builder.pc = "building"
    /\ Len(builder.segments) < MaxSegments
    /\ \E uri \in UriInputs :
         builder' =
            IF builder.err # Nil THEN Skipped(builder)
            ELSE IF validateURL(uri) # Nil THEN Failed(builder, validateURL(uri))
            ELSE AddFacetOnto(builder, uri, "link", uri, <<"AddURLLink", uri>>)
    /\ UNCHANGED <<dvars, svars, decode, client, conversion>>

\* AddFacet called by the caller: appends, whatever b.err is
AddFacet ==
    /\ builder.pc = "building"
    /\ Len(builder.segments) < MaxSegments
    /\ \E text \in FacetTexts :
         builder' = AddFacetOnto(builder, text, "tag", "v", <<"AddFacet", text>>)
    /\ UNCHANGED <<dvars, svars, decode, client, conversion>>

\* WithImages(blobs, images) with nb blobs and ni images
WithImages ==
    /\ builder.pc = "building"
    /\ \E nb \in {0, 1}, ni \in {0, 1} :
         builder' =
            IF builder.err # Nil THEN Skipped(builder)
            ELSE IF nb # ni THEN Failed(builder, ErrMismatchedImages)
            ELSE [builder EXCEPT !.images = ni, !.built = <<>>]
    /\ UNCHANGED <<dvars, svars, decode, client, conversion>>

\* shouldAddSpace
shouldAddSpace(curr, next) == curr # <<>> /\ next # <<>>

JoinAdvanceNone(byteIndex) == byteIndex

\* text.WriteString(" "); byteIndex++
JoinAdvance(byteIndex) == byteIndex + 1

\* bsky.FeedPost{}
EmptyPost == [Text |-> <<>>, Facets |-> <<>>, Embed |-> "none"]

\* the loop of Build over b.segments, from segment i on
RECURSIVE BuildLoop(_, _, _, _, _)
BuildLoop(b, i, text, facets, byteIndex) ==
    IF i > Len(b.segments) THEN [Text |-> text, Facets |-> facets]
    ELSE LET seg == b.segments[i]
             space == /\ i > 1
                      /\ b.options.JoinStrategy = JoinWithSpaces
                      /\ shouldAddSpace(b.segments[i - 1].text, seg.text)
             start == IF space THEN JoinAdvance(byteIndex) ELSE byteIndex
             joined == IF space THEN Append(text, " ") ELSE text
             facet == [ByteStart |-> start, ByteEnd |-> start + Len(seg.text),
                       Type |-> seg.facet[1].Type, Value |-> seg.facet[1].Value]
         IN  BuildLoop(b, i + 1, joined \o seg.text,
                       IF seg.facet # NoFacet THEN Append(facets, facet) ELSE facets,
                       start + Len(seg.text))

\* Build: b.err with an empty post, or the post of the segments; the builder
\* is left as it is. built is history: what the call returned.
Build ==
    /\ builder.pc = "building"
    /\ builder' =
          [builder EXCEPT !.built =
              IF builder.err # Nil
              THEN <<[post |-> EmptyPost, err |-> builder.err]>>
              ELSE LET r == BuildLoop(builder, 1, <<>>, <<>>, 0)
                   IN  <<[post |-> [Text |-> r.Text, Facets |-> r.Facets,
                                    Embed |-> IF builder.images > 0 THEN "images"
                                              ELSE "none"],
                          err |-> Nil]>>]
    /\ UNCHANGED <<dvars, svars, decode, client, conversion>>

\* NewBuilder(WithJoinStrategy(...), WithMaxLength(...))
NewBuilder(strategy, length) ==
    [pc |-> "building", segments |-> <<>>, err |-> Nil, images |-> 0,
     options |-> [JoinStrategy |-> strategy, MaxLength |-> length,
                  AutoHashtag |-> FALSE, AutoMention |-> FALSE, AutoLink |-> FALSE],
     built |-> <<>>]

InitBuilder ==
    /\ callbacks = NoCallbacks
    /\ evt = NoEvent
    /\ pc = Idle
    /\ post = NoPost
    /\ trace = <<>>
    /\ ret = Nil
    /\ wsConn = 0
    /\ conns = <<>>
    /\ procs = <<>>
    /\ closeRet = NoClose
    /\ decode = NoDecode
    /\ client = NoClient
    /\ conversion = NoConversion
    /\ \E strategy \in {JoinAsIs, JoinWithSpaces}, length \in MaxLengths :
          builder = NewBuilder(strategy, length)

NextBuilder ==
    \/ AddText
    \/ AddMention
    \/ AddTag
    \/ AddLink
    \/ AddURLLink
    \/ AddFacet
    \/ WithImages
    \/ Build

SpecBuilder == InitBuilder /\ [][NextBuilder]_vars

\* ------------------------------------------------------- PostFromFeedPost
\* A call of post.PostFromFeedPost on a decoded bsky.FeedPost, as
\* PostFromCommitEvent makes it. The text of the record is the sequence of its
\* bytes. conversion.i, j: the facet and the feature ExtractFacetsFromFeedPost is
\* at; conversion.Facets: the facets it has appended.

\* facet.Index, a pointer: nil, or a byte slice
NoIndex == <<>>
ByteSlice(s, e) == <<[ByteStart |-> s, ByteEnd |-> e]>>

\* values of ByteStart and ByteEnd in a record, around the lengths of the texts
FacetOffsets == {-1, 0, 1, 3}

\* facet.Features: none, one of a known kind, one of no known kind
FacetFeatures == {<<>>, <<"link">>, <<"unknown">>}

FacetInputs ==
    [Index : {NoIndex} \cup {ByteSlice(s, e) : s \in FacetOffsets, e \in FacetOffsets},
     Features : FacetFeatures]

\* the records PostFromFeedPost is called with
FeedPosts ==
    [Text : {<<>>, <<"h", "i">>}, EmbedOk : BOOLEAN,
     Facets : SeqsUpTo(FacetInputs, MaxFacets)]

min(a, b) == IF a < b THEN a ELSE b

\* the slice expression str[low:high] is in range
SliceInRange(str, low, high) == 0 <= low /\ low <= high /\ high <= Len(str)

\* the position of the next feature the loops of ExtractFacetsFromFeedPost get
\* to, from feature j of facet i on; i is past the facets when there is none
RECURSIVE NextFeature(_, _, _)
NextFeature(facets, i, j) ==
    IF i > Len(facets) THEN [i |-> i, j |-> 1]
    ELSE IF j > Len(facets[i].Features) THEN NextFeature(facets, i + 1, 1)
    ELSE [i |-> i, j |-> j]

\* PostFromFeedPost up to the call of ExtractFacetsFromFeedPost: the labels, then
\* embed, err := ExtractEmbedFromFeedPost(post); if err != nil { return nil, err }
ConversionBegin ==
    /\ conversion.pc = "call"
    /\ conversion' =
          IF ~conversion.post.EmbedOk
          THEN [conversion EXCEPT !.pc = "done", !.err = <<"image blob is nil">>]
          ELSE LET n == NextFeature(conversion.post.Facets, 1, 1)
               IN  [conversion EXCEPT !.pc = "facets", !.i = n.i, !.j = n.j]
    /\ UNCHANGED <<dvars, svars, decode, client, builder>>

\* one turn of the inner loop of ExtractFacetsFromFeedPost: the index is read
\* through facet.Index, the text is sliced, a facet of a known kind is
\* appended. A nil facet.Index and a slice out of range are run-time panics.
ExtractFacetsFromFeedPost ==
    /\ conversion.pc = "facets"
    /\ conversion.i <= Len(conversion.post.Facets)
    /\ LET facet == conversion.post.Facets[conversion.i]
           text == conversion.post.Text
           n == NextFeature(conversion.post.Facets, conversion.i, conversion.j + 1)
       IN  IF facet.Index = NoIndex
           THEN conversion' = [conversion EXCEPT
                                  !.pc = "panicked",
                                  !.panic = "nil pointer dereference"]
           ELSE LET ByteStart == facet.Index[1].ByteStart
                    ByteEnd == min(facet.Index[1].ByteEnd, Len(text))
                IN  IF ~SliceInRange(text, ByteStart, ByteEnd)
                    THEN conversion' = [conversion EXCEPT
                                           !.pc = "panicked",
                                           !.panic = "slice bounds out of range"]
                    ELSE conversion' =
                            [conversion EXCEPT
                               !.i = n.i, !.j = n.j,
                               !.Facets =
                                  IF facet.Features[conversion.j] = "unknown" THEN @
                                  ELSE Append(@, [ByteStart |-> ByteStart,
                                                  ByteEnd |-> ByteEnd,
                                                  Text |-> SubSeq(text, ByteStart + 1,
                                                                  ByteEnd),
                                                  of |-> conversion.i])]
    /\ UNCHANGED <<dvars, svars, decode, client, builder>>

\* the loops are over: return &Post{..., Facets: ..., ...}, nil
ConversionReturn ==
    /\ conversion.pc = "facets"
    /\ conversion.i > Len(conversion.post.Facets)
    /\ conversion' = [conversion EXCEPT !.pc = "done", !.err = Nil]
    /\ UNCHANGED <<dvars, svars, decode, client, builder>>

InitConversion ==
    /\ callbacks = NoCallbacks
    /\ evt = NoEvent
    /\ pc = Idle
    /\ post = NoPost
    /\ trace = <<>>
    /\ ret = Nil
    /\ wsConn = 0
    /\ conns = <<>>
    /\ procs = <<>>
    /\ closeRet = NoClose
    /\ decode = NoDecode
    /\ client = NoClient
    /\ builder = NoBuilder
    /\ \E p \in FeedPosts :
          conversion = [pc |-> "call", post |-> p, i |-> 0, j |-> 0, Facets |-> <<>>,
                        err |-> Nil, panic |-> ""]

NextConversion ==
    \/ ConversionBegin
    \/ ExtractFacetsFromFeedPost
    \/ ConversionReturn

SpecConversion == InitConversion /\ [][NextConversion]_vars

\* ================================================================ claims
\* The history `trace` holds the invocations of the callback in progress, in
\* the order they happened.

\* the collection segment of path is exactly coll
OnCollection(path, coll) == Len(path) >= 2 /\ path[1] = coll /\ path[2] = "/"

IsHandlerCall(k) == trace[k].kind = "handler"
IsFilterCall(k) == trace[k].kind = "filter"
IsDecodeCall(k) == trace[k].kind = "decode"
SameEntry(a, b) ==
    /\ trace[a].op = trace[b].op
    /\ trace[a].cat = trace[b].cat
    /\ trace[a].h = trace[b].h

\* C1: while one commit is dispatched, the handler invocations caused by an
\* earlier operation all precede those caused by a later operation, and within
\* one operation the comment handlers run after that operation's post handlers
\* (hence before any handler of the next operation).
C1_HandlersInCommitOrder ==
    \A a, b \in 1..Len(trace) :
        (a < b /\ IsHandlerCall(a) /\ IsHandlerCall(b)) =>
            /\ trace[a].op <= trace[b].op
            /\ (trace[a].op = trace[b].op /\ trace[b].cat = "post")
                   => trace[a].cat # "comment"

\* a reply post's handlers ran, then its comment handler, then a handler of the
\* next operation
C1_Witness ==
    \E a, b, c \in 1..Len(trace) :
        /\ a < b /\ b < c
        /\ IsHandlerCall(a) /\ trace[a].cat = "post" /\ trace[a].op = 1
        /\ IsHandlerCall(b) /\ trace[b].cat = "comment" /\ trace[b].op = 1
        /\ IsHandlerCall(c) /\ trace[c].op = 2

\* C2: the Post handed to the post handlers for a post-create operation, at any
\* position of the commit, is decoded from that operation's own cid and carries
\* the trailing segment of that operation's own path as its rkey.
C2_PostFromOwnOperation ==
    \A k \in 1..Len(trace) :
        (/\ IsHandlerCall(k) /\ trace[k].cat = "post"
         /\ OnCollection(evt.Ops[trace[k].op].Path, POST))
        => /\ trace[k].arg.Rkey = RkeyOf(evt.Ops[trace[k].op].Path)
           /\ trace[k].arg.Text = DecodeRecord(evt.Ops[trace[k].op]).rec.Text

\* the operation whose record the event seen at history position k was derived
\* from: the one the extractor was last invoked on
DerivedFrom(k) ==
    LET ds == {d \in 1..k : IsDecodeCall(d)}
    IN  trace[CHOOSE d \in ds : \A x \in ds : x <= d].arg

DistinctPathCid(e) ==
    \A i, j \in 1..Len(e.Ops) :
        i # j => <<e.Ops[i].Path, e.Ops[i].Cid>> # <<e.Ops[j].Path, e.Ops[j].Cid>>

\* C3: within one commit (whose operations have distinct (path, cid) pairs) a
\* post or comment handler sees the event of a (path, cid) pair at most once,
\* and an operation whose extraction fails gets no post and no comment handler
\* invocation.
C3_AtMostOncePerPathCid ==
    (evt.kind = "commit" /\ DistinctPathCid(evt)) =>
        /\ \A a, b \in 1..Len(trace) :
              (/\ a < b
               /\ IsHandlerCall(a) /\ IsHandlerCall(b)
               /\ trace[a].cat \in {"post", "comment"}
               /\ trace[a].cat = trace[b].cat /\ trace[a].h = trace[b].h)
              => <<DerivedFrom(a).Path, DerivedFrom(a).Cid>>
                    # <<DerivedFrom(b).Path, DerivedFrom(b).Cid>>
        /\ \A k \in 1..Len(trace) :
              (IsHandlerCall(k) /\ trace[k].cat \in {"post", "comment"})
              => DecodeRecord(evt.Ops[trace[k].op]).err = Nil

\* C4: a handler of any kind that returns an error is the last invocation of
\* the callback, which returns that same error to the read loop.
C4_HandlerErrorAborts ==
    \A k \in 1..Len(trace) :
        (IsHandlerCall(k) /\ trace[k].ret # Nil) =>
            /\ k = Len(trace)
            /\ pc = Returned
            /\ ret = trace[k].ret

\* the first of two post handlers failed on the first of two operations
C4_Witness ==
    /\ pc = Returned /\ ret # Nil
    /\ evt.kind = "commit" /\ Len(evt.Ops) = 2
    /\ Len(callbacks.PostHandlers) = 2
    /\ LET last == trace[Len(trace)]
       IN  last.kind = "handler" /\ last.cat = "post" /\ last.h = 1 /\ last.op = 1
                /\ last.ret = ret

FilteredCats ==
    {"post", "comment", "follow", "like", "repost", "handle", "info", "migrate",
     "tombstone"}
FiltersOf(k) == Entries(callbacks, trace[k].cat)[trace[k].h].Filters

\* C9: the filters of an entry are evaluated in list order; after a false
\* verdict neither a later filter of that entry nor its handler is invoked and
\* dispatch goes on with the next entry; the handler is invoked exactly when all
\* filters of its entry returned true (always, when it has none).
C9_FilterShortCircuit ==
    /\ \A k \in 1..Len(trace) :
          /\ IsFilterCall(k) =>
                \* list order: filter 1, or right after a true verdict of f-1
                /\ \/ trace[k].f = 1
                   \/ /\ k > 1 /\ IsFilterCall(k - 1) /\ SameEntry(k - 1, k)
                      /\ trace[k - 1].f = trace[k].f - 1 /\ trace[k - 1].ok
                \* first of the entry's invocations when it is filter 1
                /\ (trace[k].f = 1 /\ k > 1) => ~SameEntry(k - 1, k)
                \* a false verdict ends the entry
                /\ (~trace[k].ok /\ k < Len(trace)) => ~SameEntry(k, k + 1)
                \* a true verdict is followed by the next filter or the handler
                /\ trace[k].ok =>
                      /\ k < Len(trace) /\ SameEntry(k, k + 1)
                      /\ IF trace[k].f < Len(FiltersOf(k))
                         THEN IsFilterCall(k + 1) /\ trace[k + 1].f = trace[k].f + 1
                         ELSE IsHandlerCall(k + 1)
          /\ (IsHandlerCall(k) /\ trace[k].cat \in FilteredCats) =>
                \* all filters of the entry returned true
                /\ \/ Len(FiltersOf(k)) = 0
                   \/ /\ k > 1 /\ IsFilterCall(k - 1) /\ SameEntry(k - 1, k)
                      /\ trace[k - 1].f = Len(FiltersOf(k)) /\ trace[k - 1].ok
                \* every earlier entry of the list was gone through before
                /\ trace[k].h > 1 =>
                      \E j \in 1..(k - 1) :
                          /\ trace[j].op = trace[k].op /\ trace[j].cat = trace[k].cat
                          /\ trace[j].h = trace[k].h - 1
    \* once the callback returned nil, every entry of a list that was gone into
    \* was gone through: it ends on a false verdict or on its handler
    /\ (pc = Returned /\ ret = Nil) =>
          \A k \in 1..Len(trace) :
              trace[k].cat \in FilteredCats /\ ~IsDecodeCall(k) =>
                  \A h \in 1..Len(Entries(callbacks, trace[k].cat)) :
                      \E j \in 1..Len(trace) :
                          /\ trace[j].op = trace[k].op /\ trace[j].cat = trace[k].cat
                          /\ trace[j].h = h
                          /\ \/ IsHandlerCall(j)
                             \/ IsFilterCall(j) /\ ~trace[j].ok

\* the first filter of a two-filter entry returned false, and the next entry's
\* handler was invoked
C9_Witness ==
    \E k \in 1..Len(trace) :
        /\ IsFilterCall(k) /\ trace[k].f = 1 /\ ~trace[k].ok
        /\ Len(FiltersOf(k)) = 2
        /\ k < Len(trace) /\ IsHandlerCall(k + 1)
        /\ trace[k + 1].cat = trace[k].cat /\ trace[k + 1].h = trace[k].h + 1

\* C10: with no post handler registered the extractor is never invoked.
C10_NoExtractionWithoutPostHandlers ==
    Len(callbacks.PostHandlers) = 0 =>
        /\ pc.phase # "convert"
        /\ \A k \in 1..Len(trace) : ~IsDecodeCall(k)

\* a commit with a decodable post-create operation went through a callback set
\* that has raw and comment handlers but no post handler
C10_Witness ==
    /\ Len(callbacks.PostHandlers) = 0
    /\ pc = Returned /\ ret = Nil
    /\ evt.kind = "commit"
    /\ \E i \in 1..Len(evt.Ops) :
          /\ HasPrefix(evt.Ops[i].Path, <<POST>>)
          /\ evt.Ops[i].Action = "create"
          /\ DecodeRecord(evt.Ops[i]).err = Nil
          /\ \E k \in 1..Len(trace) : trace[k].op = i /\ trace[k].cat = "raw"

Collections == {POST, FOLLOW, LIKE, REPOST}

\* every operation of e that has the name of a collection as a prefix of its
\* path is on that collection
ExactCollections(e) ==
    \A i \in 1..Len(e.Ops) : \A c \in Collections :
        HasPrefix(e.Ops[i].Path, <<c>>) => OnCollection(e.Ops[i].Path, c)

\* a single-operation commit holding operation i of e: what the conversion
\* yields when it is given that operation
OwnConversion(e, i) == PostFromCommitEvent([e EXCEPT !.Ops = <<e.Ops[i]>>])

\* a post-create operation with a cid, the only kind the pipeline materializes
IsPostCreate(op) ==
    OnCollection(op.Path, POST) /\ op.Action = "create" /\ op.Cid # ""

\* an operation on the post collection that is not to be materialized
NotMaterialized(op) == OnCollection(op.Path, POST) /\ ~IsPostCreate(op)

\* C11: an update or delete (or an operation without cid) on the post collection
\* gets no post or comment filter or handler invocation, the extractor is never
\* invoked on it, and no conversion fails on it.
C11_UpdateDeleteNotMaterialized ==
    (evt.kind = "commit" /\ DistinctPathCid(evt) /\ ExactCollections(evt)) =>
        \A k \in 1..Len(trace) :
            /\ trace[k].cat \in {"post", "comment"} /\ ~IsDecodeCall(k)
                  => ~NotMaterialized(evt.Ops[trace[k].op])
            /\ IsDecodeCall(k) => ~NotMaterialized(trace[k].arg)

\* C12: with a post handler registered, once the callback has got to a
\* post-create operation whose own record does not decode or convert, no post,
\* comment, follow, like or repost handler is invoked for that operation or for
\* a later one, and the callback does not return nil.
C12_ConversionFailureStopsCommit ==
    (evt.kind = "commit" /\ Len(callbacks.PostHandlers) > 0 /\ ExactCollections(evt)) =>
        \A i \in 1..Len(evt.Ops) :
            (IsPostCreate(evt.Ops[i]) /\ OwnConversion(evt, i).err # Nil) =>
                /\ \A k \in 1..Len(trace) :
                      (IsHandlerCall(k) /\ trace[k].cat # "raw") => trace[k].op < i
                /\ pc = Returned => ret # Nil

\* the block the extractor finds for op: the first one of the archive with the
\* operation's cid
HeldAt(op) ==
    LET bs == ArchiveData(op.Blocks).blocks
        ks == {k \in 1..Len(bs) : bs[k].cid = op.Cid}
    IN  IF ArchiveData(op.Blocks).header /\ ks # {}
        THEN <<bs[CHOOSE k \in ks : \A j \in ks : k <= j]>>
        ELSE <<>>

\* the archive holds at op's cid a well-formed post record without reply
HoldsPlainPost(op) ==
    /\ HeldAt(op) # <<>>
    /\ HeldAt(op)[1].readable /\ HeldAt(op)[1].cbor
    /\ HeldAt(op)[1].rec.EmbedOk
    /\ HeldAt(op)[1].rec.ReplyRoot = <<>>

PostHandlerCalls(i, h) ==
    {k \in 1..Len(trace) :
        IsHandlerCall(k) /\ trace[k].cat = "post" /\ trace[k].op = i /\ trace[k].h = h}

\* C13: a commit from repo R whose only operation is {create,
\* app.bsky.feed.post/K, cid C}, with a reply-less post record of text T at C:
\* the callback fails only when a handler does, and when it returns nil every
\* unfiltered post handler was invoked exactly once, every post handler
\* invocation got Post{R, K, T}, and no comment filter or handler was invoked.
C13_SinglePlainPost ==
    (/\ evt.kind = "commit" /\ Len(evt.Ops) = 1
     /\ IsPostCreate(evt.Ops[1]) /\ Len(evt.Ops[1].Path) = 3
     /\ HoldsPlainPost(evt.Ops[1]))
    => /\ \A k \in 1..Len(trace) :
             /\ trace[k].cat # "comment"
             /\ (IsHandlerCall(k) /\ trace[k].cat = "post") =>
                    trace[k].arg = [valid |-> TRUE, Repo |-> evt.Repo,
                                    Rkey |-> <<evt.Ops[1].Path[3]>>,
                                    Text |-> HeldAt(evt.Ops[1])[1].rec.Text,
                                    ReplyUri |-> <<>>]
       /\ \A h \in 1..Len(callbacks.PostHandlers) :
             Cardinality(PostHandlerCalls(1, h)) <= 1
       /\ (pc = Returned /\ ret # Nil) =>
             /\ Len(trace) > 0
             /\ IsHandlerCall(Len(trace)) /\ trace[Len(trace)].ret = ret
       /\ (pc = Returned /\ ret = Nil) =>
             \A h \in 1..Len(callbacks.PostHandlers) :
                 callbacks.PostHandlers[h].Filters = <<>>
                    => Cardinality(PostHandlerCalls(1, h)) = 1

\* such a commit went through two post handlers, one of them unfiltered, with
\* comment handlers registered
C13_Witness ==
    /\ evt.kind = "commit" /\ Len(evt.Ops) = 1
    /\ IsPostCreate(evt.Ops[1]) /\ HoldsPlainPost(evt.Ops[1])
    /\ pc = Returned /\ ret = Nil
    /\ Len(callbacks.CommentHandlers) > 0
    /\ Cardinality(PostHandlerCalls(1, 1)) = 1
    /\ Cardinality(PostHandlerCalls(1, 2)) = 1

\* the archive holds at op's cid a well-formed post record that is a reply
HoldsReplyPost(op) ==
    /\ HeldAt(op) # <<>>
    /\ HeldAt(op)[1].readable /\ HeldAt(op)[1].cbor
    /\ HeldAt(op)[1].rec.EmbedOk
    /\ HeldAt(op)[1].rec.ReplyRoot # <<>>

\* C14: with post and comment handlers registered, a post-create operation
\* whose record is a reply to U gets, besides its Post, one Comment: the comment
\* filters and handlers are invoked for it, each handler at most once, with
\* actor = the commit's repo, subject = the operation's path, uri =
\* at://<repo>/app.bsky.feed.post/<rkey>, replyTo = U and text = the record's
\* text.
C14_CommentForReplyPost ==
    (/\ evt.kind = "commit" /\ ExactCollections(evt)
     /\ Len(callbacks.PostHandlers) > 0 /\ Len(callbacks.CommentHandlers) > 0
     /\ pc = Returned /\ ret = Nil)
    => \A i \in 1..Len(evt.Ops) :
          (/\ IsPostCreate(evt.Ops[i]) /\ Len(evt.Ops[i].Path) = 3
           /\ HoldsReplyPost(evt.Ops[i]))
          => /\ \E k \in 1..Len(trace) : trace[k].cat = "comment" /\ trace[k].op = i
             /\ \A k \in 1..Len(trace) :
                   (trace[k].cat = "comment" /\ trace[k].op = i) =>
                       trace[k].arg =
                           [Actor |-> evt.Repo, Subject |-> evt.Ops[i].Path,
                            Uri |-> <<"at://", evt.Repo, "/", POST, "/",
                                      evt.Ops[i].Path[3]>>,
                            ReplyTo |-> HeldAt(evt.Ops[i])[1].rec.ReplyRoot,
                            Text |-> HeldAt(evt.Ops[i])[1].rec.Text]
             /\ \A h \in 1..Len(callbacks.CommentHandlers) :
                   Cardinality({k \in 1..Len(trace) :
                                   /\ IsHandlerCall(k) /\ trace[k].cat = "comment"
                                   /\ trace[k].op = i /\ trace[k].h = h}) <= 1

\* C15: like and repost filters and handlers are invoked only for operations
\* whose action is create; once the callback has returned nil with follow
\* handlers registered, every operation on app.bsky.graph.follow, whatever its
\* action, had the follow entries invoked with Follow{actor = repo, subject =
\* path}.
C15_ActionRequiredForLikeRepostOnly ==
    evt.kind = "commit" =>
        /\ \A k \in 1..Len(trace) :
              trace[k].cat \in {"like", "repost"}
                  => evt.Ops[trace[k].op].Action = "create"
        /\ pc.phase \in {"like", "repost"} => evt.Ops[pc.op].Action = "create"
        /\ (pc = Returned /\ ret = Nil /\ Len(callbacks.FollowHandlers) > 0) =>
              \A i \in 1..Len(evt.Ops) :
                  OnCollection(evt.Ops[i].Path, FOLLOW) =>
                      \E k \in 1..Len(trace) :
                          /\ trace[k].cat = "follow" /\ trace[k].op = i
                          /\ trace[k].arg = [Actor |-> evt.Repo,
                                             Subject |-> evt.Ops[i].Path]

\* a commit that deletes a follow and a like went through follow and like
\* handlers: the follow handler ran, no like handler did
C15_Witness ==
    /\ evt.kind = "commit" /\ pc = Returned /\ ret = Nil
    /\ Len(callbacks.FollowHandlers) > 0 /\ Len(callbacks.LikeHandlers) > 0
    /\ \E i, j \in 1..Len(evt.Ops) :
          /\ OnCollection(evt.Ops[i].Path, FOLLOW) /\ evt.Ops[i].Action = "delete"
          /\ OnCollection(evt.Ops[j].Path, LIKE) /\ evt.Ops[j].Action = "delete"
          /\ \E k \in 1..Len(trace) :
                IsHandlerCall(k) /\ trace[k].cat = "follow" /\ trace[k].op = i
          /\ \A k \in 1..Len(trace) : trace[k].op = j => trace[k].cat = "raw"

\* the path of op begins with the name of none of the four collections
Unrecognized(op) == \A c \in Collections : ~HasPrefix(op.Path, <<c>>)

\* C16: an operation on none of the four collections gets no filter or handler
\* invocation other than the raw handlers', the callback enters no block other
\* than the raw handlers' for it, and the extractor is never invoked on it.
C16_UnrecognizedIgnored ==
    (evt.kind = "commit" /\ ExactCollections(evt)) =>
        /\ \A k \in 1..Len(trace) :
              /\ (trace[k].cat # "raw" /\ ~IsDecodeCall(k))
                    => ~Unrecognized(evt.Ops[trace[k].op])
              /\ IsDecodeCall(k) => ~Unrecognized(trace[k].arg)
        /\ (pc.op > 0 /\ Unrecognized(evt.Ops[pc.op])) => pc.phase = "raw"

\* raw handler h was invoked with operation i before history position k
RawCalledBefore(i, h, k) ==
    \E j \in 1..(k - 1) :
        /\ IsHandlerCall(j) /\ trace[j].cat = "raw"
        /\ trace[j].op = i /\ trace[j].h = h
        /\ trace[j].arg = evt.Ops[i]

\* C17: every registered raw handler has been invoked with an operation before
\* the extractor or any filter or handler of another kind is invoked for that
\* operation and before the callback enters any other block for it; a callback
\* that returns nil has invoked every raw handler with every operation of the
\* commit, whatever its collection or action.
C17_RawHandlersFirst ==
    evt.kind = "commit" =>
        /\ \A k \in 1..Len(trace) :
              /\ trace[k].cat = "raw" => trace[k].arg = evt.Ops[trace[k].op]
              /\ trace[k].cat # "raw" =>
                    \A h \in 1..Len(callbacks.Handlers) :
                        RawCalledBefore(trace[k].op, h, k)
        /\ (pc.op > 0 /\ pc.phase # "raw") =>
              \A h \in 1..Len(callbacks.Handlers) :
                  RawCalledBefore(pc.op, h, Len(trace) + 1)
        /\ (pc = Returned /\ ret = Nil) =>
              \A i \in 1..Len(evt.Ops) : \A h \in 1..Len(callbacks.Handlers) :
                  RawCalledBefore(i, h, Len(trace) + 1)

\* the raw handler ran for a post-create operation before its post handler
\* did, and ran for the unrecognized operation that follows it
C17_Witness ==
    /\ evt.kind = "commit" /\ Len(evt.Ops) = 2
    /\ pc = Returned /\ ret = Nil
    /\ Unrecognized(evt.Ops[2])
    /\ \E a, b, c \in 1..Len(trace) :
          /\ a < b /\ b < c
          /\ IsHandlerCall(a) /\ trace[a].cat = "raw" /\ trace[a].op = 1
          /\ IsHandlerCall(b) /\ trace[b].cat = "post" /\ trace[b].op = 1
          /\ IsHandlerCall(c) /\ trace[c].cat = "raw" /\ trace[c].op = 2

\* C5: a subscription that had a session, or a reconnect wait pending, when the
\* caller invoked Close never enters connect again and gets no new connection.
C5_NoReconnectAfterClose ==
    \A p \in 1..Len(procs) :
        procs[p].closedByCaller =>
            /\ procs[p].pc \notin {"dial", "store"}
            /\ procs[p].conn = procs[p].connAtClose

C8_ReconnectAfterDelaySameCallbacks ==
    /\ \A p \in 1..Len(procs) :
          /\ (procs[p].pc \in {"dial", "store"} /\ procs[p].sessions >= 1)
                => procs[p].waited >= ReconnectDelay
          /\ (procs[p].pc = "run" /\ procs[p].sessions >= 2)
                => procs[p].waited >= ReconnectDelay
          /\ \A c \in 1..Len(conns) :
                (conns[c].owner = p /\ procs[p].delivered # "")
                    => procs[p].delivered = conns[c].callbacks
    /\ \A c, d \in 1..Len(conns) :
          conns[c].owner = conns[d].owner => conns[c].callbacks = conns[d].callbacks

\* the first session failed, the connect after it succeeded, and a frame of the
\* second session was dispatched
C8_Witness ==
    \E p \in 1..Len(procs) :
        /\ procs[p].sessions = 2
        /\ procs[p].pc = "run"
        /\ procs[p].err = "error"
        /\ procs[p].delivered # ""

\* C18: within a session at most one callback runs at a time, the callbacks
\* complete in the order their frames were read, and the callback of a frame
\* begins only when those of all frames read before it have returned.
C18_CallbacksOneAtATimeInOrder ==
    \A p \in 1..Len(procs) :
        /\ Cardinality(procs[p].active) <= 1
        /\ procs[p].done = [k \in 1..Len(procs[p].done) |-> k]
        /\ \A k \in procs[p].active :
              k = procs[p].read /\ Len(procs[p].done) = k - 1
        /\ procs[p].active = {} => Len(procs[p].done) = procs[p].read

\* the callback of the second frame of a session runs, that of the first has
\* returned
C18_Witness ==
    \E p \in 1..Len(procs) :
        /\ procs[p].pc = "run"
        /\ procs[p].done = <<1>>
        /\ procs[p].active = {2}

\* C19: a call of Close leaves no connection stored; a stored connection is
\* closed by it; a call that finds none stored returns nil and changes neither
\* the handle nor any connection; a call made right after another call of
\* Close returns nil.
C19_CloseIdempotent ==
    [][Close =>
          /\ wsConn' = 0
          /\ wsConn # 0 => ~conns'[wsConn].open
          /\ wsConn = 0 => (closeRet'.ret = "nil" /\ UNCHANGED <<wsConn, conns>>)
          /\ closeRet.ret # "none" => closeRet'.ret = "nil"]_vars

\* a call of Close that found a connection stored and returned the error of
\* closing it was followed at once by a second call, which returned nil
C19_Witness ==
    /\ closeRet.after = "error"
    /\ closeRet.ret = "nil"
    /\ wsConn = 0
    /\ \E c \in 1..Len(conns) : ~conns[c].open

\* the subscription has stopped for good and its connection, if it had one, is
\* closed
Quiescent(p) ==
    /\ p <= Len(procs)
    /\ procs[p].pc \in {"failed", "ended", "gaveup"}
    /\ procs[p].conn = 0 \/ ~conns[procs[p].conn].open

C21_OwnConnectionHandle ==
    \A p \in 1..Len(procs) :
        (procs[p].pc = "run" /\ conns[procs[p].conn].open)
            => wsConn = procs[p].conn

\* ------------------------------------------------------------- extractor

\* the errors of an operation that lacks blocks or cid
MissingInput ==
    { <<"no blocks data available to decode">>, <<"no CID available for record">> }

\* C22: a call of the extractor whose blocks are empty (a nil slice or one of
\* length 0) or whose cid is empty never gets to parse the cid or to open the
\* archive, and returns a missing-input error.
C22_MissingInputFirst ==
    (decode.pc # "none" /\ (decode.Blocks.bytes \in {"nil", "empty"} \/ decode.Cid = ""))
    => /\ decode.pc \in {"call", "done"}
       /\ decode.steps = <<>>
       /\ decode.pc = "done" => decode.err \in MissingInput

\* the archive can be read to its end
WellFormed(a) ==
    a.bytes = "data" /\ a.header /\ \A k \in 1..Len(a.blocks) : a.blocks[k].readable

\* the positions of the blocks of archive a whose identifier is c
Matches(a, c) == {k \in 1..Len(a.blocks) : a.blocks[k].cid = c}

\* n times "next"
Nexts(n) == [k \in 1..n |-> "next"]

\* C23: a call with a cid that no block of a well-formed archive has returns
\* the record-not-found error once it has read the archive to its end, with the
\* target as it was handed in; a call made again with the same inputs returns
\* the same.
C23_AbsentCidNotFound ==
    (/\ decode.pc = "done"
     /\ CidParses(decode.Cid)
     /\ WellFormed(decode.Blocks)
     /\ Matches(decode.Blocks, decode.Cid) = {})
    => /\ decode.err = <<"block not found in CAR data">>
       /\ decode.target = decode.atCall
       /\ decode.steps = <<"parse", "open">> \o Nexts(Len(decode.Blocks.blocks) + 1)
       /\ decode.prev # <<>> =>
             /\ decode.prev[1].err = decode.err
             /\ decode.prev[1].target = decode.target
             /\ decode.prev[1].atCall = decode.atCall

\* a second call on an archive of two or more blocks, none with the cid, with
\* a target that held values
C23_Witness ==
    /\ decode.pc = "done" /\ decode.prev # <<>>
    /\ decode.Cid = "c3"
    /\ WellFormed(decode.Blocks) /\ Len(decode.Blocks.blocks) >= 2
    /\ decode.target # ZeroRecord
    /\ decode.err = <<"block not found in CAR data">>

\* the position of the first block of archive a whose identifier is c
FirstMatch(a, c) == CHOOSE k \in Matches(a, c) : \A j \in Matches(a, c) : k <= j

PassthroughKinds == {"handle", "info", "migrate", "tombstone"}

\* the event of a passthrough frame w of kind k: the fields of the frame, ""
\* for an optional field that is absent
Unchanged(k, w) ==
    CASE k = "handle" -> [kind |-> k, Did |-> w.Did, Handle |-> w.Handle]
      [] k = "info" ->
            [kind |-> k, Name |-> w.Name,
             Message |-> IF w.Message.nil THEN "" ELSE w.Message.s]
      [] k = "migrate" ->
            [kind |-> k, Did |-> w.Did,
             MigrateTo |-> IF w.MigrateTo.nil THEN "" ELSE w.MigrateTo.s]
      [] k = "tombstone" -> [kind |-> k, Did |-> w.Did, Time |-> w.Time]

\* C25: while a handle, info, migrate or tombstone frame is dispatched, every
\* filter and handler invoked is one registered for that kind and gets the
\* frame's fields unchanged ("" for an absent message or destination); the
\* extractor and the blocks of OnCommit are never entered; with no handler of
\* the kind registered the callback returns nil at once; and a callback that
\* returns nil has invoked every unfiltered handler of the kind exactly once.
C25_PassthroughForwardedAsIs ==
    evt.kind \in PassthroughKinds =>
        /\ pc.phase \in {evt.kind, "returned"}
        /\ post = NoPost
        /\ \A k \in 1..Len(trace) :
              /\ trace[k].cat = evt.kind
              /\ ~IsDecodeCall(k)
              /\ trace[k].arg = Unchanged(evt.kind, evt.wire)
        /\ Len(Entries(callbacks, evt.kind)) = 0 =>
              (pc = Returned /\ ret = Nil /\ trace = <<>>)
        /\ (pc = Returned /\ ret = Nil) =>
              \A h \in 1..Len(Entries(callbacks, evt.kind)) :
                  Entries(callbacks, evt.kind)[h].Filters = <<>> =>
                      Cardinality({k \in 1..Len(trace) :
                                      IsHandlerCall(k) /\ trace[k].h = h}) = 1

\* an info frame without message went through the info handler, with post and
\* raw handlers registered
C25_Witness ==
    /\ evt.kind = "info" /\ evt.wire.Message.nil
    /\ pc = Returned /\ ret = Nil
    /\ Len(callbacks.PostHandlers) > 0 /\ Len(callbacks.Handlers) > 0
    /\ \E k \in 1..Len(trace) : IsHandlerCall(k) /\ trace[k].arg.Message = ""

\* ------------------------------------------------------- initial connect

\* C26: when the connect of a Subscribe call made by the caller fails, the call
\* ends with the error and nothing follows it: no connection of its own exists
\* or is stored, no session and no frame, no wait and no further connect.
C26_FailedConnectStartsNothing ==
    /\ [](\A p \in 1..Len(procs) :
             /\ procs[p].pc = "failed" =>
                   /\ procs[p].conn = 0 /\ procs[p].sessions = 0
                   /\ procs[p].read = 0 /\ procs[p].active = {}
                   /\ procs[p].timer = 0 /\ procs[p].waited = 0
                   /\ \A c \in 1..Len(conns) : conns[c].owner # p
             /\ procs[p].pc = "run" =>
                   /\ procs[p].conn \in 1..Len(conns)
                   /\ conns[procs[p].conn].owner = p)
    /\ [][\A p \in 1..Len(procs) :
             /\ (/\ procs[p].pc = "dial" /\ procs[p].sessions = 0
                  /\ procs'[p].pc # "dial" /\ procs'[p].conn = 0)
                => (procs'[p].pc = "failed" /\ UNCHANGED <<wsConn, conns>>)
             /\ procs[p].pc = "failed" =>
                   (procs'[p].pc = "failed" /\ procs'[p].conn = 0)
             /\ (procs[p].pc # "run" /\ procs'[p].pc = "run") =>
                   (procs[p].pc = "store" /\ conns[procs[p].conn].owner = p)]_vars

\* the connect of a first call with callbacks failed, and a call of Close made
\* afterwards found no connection stored
C26_Witness ==
    \E p \in 1..Len(procs) :
        /\ procs[p].pc = "failed"
        /\ procs[p].callbacks # "nil"
        /\ closeRet.ret = "nil"
        /\ wsConn = 0

\* ---------------------------------------------------------------- client

\* C27: a call of RefreshSession never crashes; one that finds no session
\* stored (a client that has never connected) or a session without refresh
\* token returns an error; and one that returns an error, for that reason or
\* because the request failed, leaves the stored session as it found it.
C27_RefreshSessionReturnsError ==
    client.pc # "none" =>
        /\ client.pc # "panicked"
        /\ client.refreshRet # <<"none">> =>
              /\ (client.refreshBefore.nil \/ client.refreshBefore.RefreshJwt = "")
                     => client.refreshRet # Nil
              /\ (client.refreshRet # Nil /\ client.pc = "idle")
                     => client.Auth = client.refreshBefore

\* --------------------------------------------------------------- builder

HasFacet(seg) == seg.facet # NoFacet

\* the display text of the segment an operation adds, from its arguments
Display(by) ==
    CASE by[1] = "AddMention" -> <<"@">> \o by[2]
      [] by[1] = "AddTag" -> IF by[2][1] = "#" THEN by[2] ELSE <<"#">> \o by[2]
      [] OTHER -> by[2]

\* C28: when Build returns a post, it has one facet per segment that was added
\* with a facet, in the order the segments were added, and the bytes of the
\* post's text from ByteStart to ByteEnd of each facet are the display text of
\* its segment.
C28_FacetBytesAreDisplayText ==
    (builder.pc = "building" /\ builder.built # <<>> /\ builder.built[1].err = Nil) =>
        LET p == builder.built[1].post
            faceted == SelectSeq(builder.segments, HasFacet)
        IN  /\ Len(p.Facets) = Len(faceted)
            /\ \A i \in 1..Len(p.Facets) :
                  /\ p.Facets[i].ByteStart <= p.Facets[i].ByteEnd
                  /\ p.Facets[i].ByteEnd <= Len(p.Text)
                  /\ SubSeq(p.Text, p.Facets[i].ByteStart + 1, p.Facets[i].ByteEnd)
                        = Display(faceted[i].by)
                  /\ p.Facets[i].Value = faceted[i].facet[1].Value

\* joined with spaces: a text, a mention after a space, and one more facet
C28_Witness ==
    /\ builder.pc = "building" /\ builder.built # <<>> /\ builder.built[1].err = Nil
    /\ builder.options.JoinStrategy = JoinWithSpaces
    /\ Len(builder.segments) = 3
    /\ ~HasFacet(builder.segments[1])
    /\ builder.segments[2].by[1] = "AddMention"
    /\ LET p == builder.built[1].post
       IN  /\ Len(p.Facets) = 2
           /\ p.Text[p.Facets[1].ByteStart] = " "
           /\ p.Facets[2].ByteStart > p.Facets[1].ByteEnd

\* C29: once the builder holds an error, an operation changes neither the
\* error nor what the builder holds, and Build returns that error with an empty
\* post.
C29_ErrorSkipsLaterOperations ==
    [][(builder.pc = "building" /\ builder.err # Nil) =>
          /\ builder'.err = builder.err
          /\ builder'.segments = builder.segments
          /\ builder'.images = builder.images
          /\ builder'.built # <<>> =>
                builder'.built[1] = [post |-> EmptyPost, err |-> builder.err]]_vars

\* C30: when Build returns a post, its text is no longer than MaxLength.
C30_BuiltTextWithinMaxLength ==
    (builder.pc = "building" /\ builder.built # <<>> /\ builder.built[1].err = Nil) =>
        Len(builder.built[1].post.Text) <= builder.options.MaxLength

\* ------------------------------------------------------------ Close, again

\* the session of subscription p that was streaming when Close was last called
StreamingAtClose(p) ==
    /\ p <= Len(procs)
    /\ procs[p].pc = "run"
    /\ procs[p].closedByCaller
    /\ procs[p].conn = procs[p].connAtClose

\* C31: a call of Close does not wait for a read loop or a handler: it can be
\* made, and returns, whatever the sessions are doing; and the read loop of a
\* session that was streaming when Close was called eventually terminates.
C31_CloseEndsStreamingSession ==
    /\ [](Len(procs) > 0 => ENABLED Close)
    /\ \A p \in 1..MaxShared : StreamingAtClose(p) ~> ~StreamingAtClose(p)

\* ------------------------------------------------------------- reconnects

\* the connections subscription p has dialed that are open
OpenOf(p) == {c \in 1..Len(conns) : conns[c].owner = p /\ conns[c].open}

C33_OneReadLoopAtATime ==
    \A p \in 1..Len(procs) :
        /\ procs[p].pc # "run" =>
               (procs[p].active = {} /\ procs[p].read = 0 /\ procs[p].done = <<>>)
        /\ Cardinality(procs[p].active) <= 1
        /\ \A k \in procs[p].active : k \in 1..procs[p].read

\* a session ended with an error, the reconnect succeeded, and a callback of
\* the second frame of the second session is in progress
C33_Witness ==
    \E p \in 1..Len(procs) :
        /\ procs[p].sessions = 2 /\ procs[p].err = "error"
        /\ procs[p].pc = "run"
        /\ procs[p].active = {2}
        /\ \E c \in 1..Len(conns) :
              c # procs[p].conn /\ conns[c].owner = p /\ ~conns[c].open

\* ------------------------------------------------------ Close, all sessions

\* the connections that a Subscribe call has dialed and stored
Stored(c) == ~(procs[conns[c].owner].pc = "store" /\ procs[conns[c].owner].conn = c)

\* C34: when a call of Close returns, every connection that a Subscribe call
\* made on the Firehose before it has dialed and stored is closed, however many
\* Subscribe calls there were.
C34_CloseClosesEveryConnection ==
    [][Close => \A c \in 1..Len(conns) : Stored(c) => ~conns'[c].open]_vars

\* ------------------------------------------------------ comments, collections

\* C35: with a comment handler registered, whether or not a post handler is, a
\* commit whose first operation creates a post whose record is a reply has, once
\* the callback has returned nil, had the extractor invoked on that operation
\* and the comment filters and handlers invoked for it.
C35_CommentsWithoutPostHandlers ==
    (/\ evt.kind = "commit" /\ Len(evt.Ops) > 0
     /\ Len(callbacks.CommentHandlers) > 0
     /\ IsPostCreate(evt.Ops[1]) /\ HoldsReplyPost(evt.Ops[1])
     /\ pc = Returned /\ ret = Nil)
    => /\ \E k \in 1..Len(trace) : IsDecodeCall(k) /\ trace[k].arg = evt.Ops[1]
       /\ \E k \in 1..Len(trace) : trace[k].cat = "comment" /\ trace[k].op = 1

\* the collection a block of OnCommit, or a category of handlers, is for
CollectionOf(cat) ==
    CASE cat \in {"convert", "post", "comment"} -> POST
      [] cat = "follow" -> FOLLOW
      [] cat = "like" -> LIKE
      [] cat = "repost" -> REPOST

\* C36: the callback enters the post, follow, like or repost block for an
\* operation, and invokes the extractor, a filter or a handler of that category
\* for it, only when the collection segment of the operation's path (the text
\* before the first "/") is exactly the collection of that category; hence an
\* operation is in at most one category.
C36_ExactCollectionMatch ==
    evt.kind = "commit" =>
        /\ \A k \in 1..Len(trace) :
              trace[k].cat # "raw" =>
                  OnCollection(evt.Ops[trace[k].op].Path, CollectionOf(trace[k].cat))
        /\ (pc.op > 0 /\ pc.phase # "raw") =>
              OnCollection(evt.Ops[pc.op].Path, CollectionOf(pc.phase))

\* ------------------------------------------------------------ interactions

Interactions == {"follow", "like", "repost"}

\* the event the claim has the handlers of category cat receive for operation i
Synthesized(cat, i) ==
    IF cat = "follow"
    THEN [Actor |-> evt.Repo, Subject |-> evt.Ops[i].Path]
    ELSE [Actor |-> evt.Repo, Subject |-> evt.Ops[i].Path, Uri |-> evt.Ops[i].Path]

\* operation op goes to category cat
GoesTo(op, cat) ==
    /\ OnCollection(op.Path, CollectionOf(cat))
    /\ cat \in {"like", "repost"} => op.Action = "create"

\* C37: every follow, like or repost filter and handler gets Actor = the
\* commit's repo and Subject = the operation's path, and for a like or repost
\* Uri = the operation's path; the extractor is not invoked in the course of
\* such an operation, and no conversion precedes its handlers; and a callback
\* that returns nil has invoked the entries of the category for every follow
\* operation and every like or repost creation, whatever the operation's cid
\* and the commit's archive are.
C37_InteractionsWithoutExtraction ==
    evt.kind = "commit" =>
        /\ \A k \in 1..Len(trace) :
              trace[k].cat \in Interactions =>
                  /\ ~IsDecodeCall(k)
                  /\ trace[k].arg = Synthesized(trace[k].cat, trace[k].op)
                  /\ \A d \in 1..Len(trace) :
                        IsDecodeCall(d) => trace[d].op # trace[k].op
        /\ pc.phase \in Interactions => post = NoPost
        /\ (pc = Returned /\ ret = Nil) =>
              \A i \in 1..Len(evt.Ops) : \A cat \in Interactions :
                  (GoesTo(evt.Ops[i], cat) /\ Len(Entries(callbacks, cat)) > 0) =>
                      \E k \in 1..Len(trace) :
                          trace[k].cat = cat /\ trace[k].op = i

\* a commit whose archive is corrupt deleted a follow (no cid) and created a
\* like: the follow and the like handlers were invoked and the callback
\* returned nil
C37_Witness ==
    /\ evt.kind = "commit" /\ Len(evt.Ops) = 2
    /\ pc = Returned /\ ret = Nil
    /\ evt.Ops[1].Blocks = "corrupt"
    /\ OnCollection(evt.Ops[1].Path, FOLLOW) /\ evt.Ops[1].Cid = ""
    /\ OnCollection(evt.Ops[2].Path, LIKE)
    /\ \E a, b \in 1..Len(trace) :
          /\ IsHandlerCall(a) /\ trace[a].cat = "follow" /\ trace[a].op = 1
          /\ IsHandlerCall(b) /\ trace[b].cat = "like" /\ trace[b].op = 2

\* ------------------------------------------------------------- conversion

\* facet f of a record has a feature, and an index that is missing or is not a
\* byte range of the text
BadIndex(f, text) ==
    /\ f.Features # <<>>
    /\ \/ f.Index = NoIndex
       \/ ~SliceInRange(text, f.Index[1].ByteStart, f.Index[1].ByteEnd)

\* C38: a call of PostFromFeedPost never ends in a run-time fault; every facet
\* it extracts has 0 <= ByteStart <= ByteEnd <= the length of the text; and the
\* call returns an error when a facet of the record has a missing or
\* out-of-range index.
C38_ConversionNeverFaults ==
    conversion.pc # "none" =>
        /\ conversion.pc # "panicked"
        /\ \A k \in 1..Len(conversion.Facets) :
              SliceInRange(conversion.post.Text, conversion.Facets[k].ByteStart,
                           conversion.Facets[k].ByteEnd)
        /\ (/\ conversion.pc = "done"
            /\ \E k \in 1..Len(conversion.post.Facets) :
                  BadIndex(conversion.post.Facets[k], conversion.post.Text))
           => conversion.err # Nil

====
